---- MODULE Spec2Model ----
(***************************************************************************)
(* Photo Watermark 2: the watermark placement geometry, the preview and    *)
(* export compose paths, the offset-ratio translation and the batch export *)
(* with its naming rules, modelled from watermark_app/core/exporter.py and *)
(* watermark_app/ui/main_window.py.                                        *)
(***************************************************************************)
EXTENDS Integers, Sequences, FiniteSets, TLC

(***************************************************************************)
(* Python float arithmetic.  Every float the program computes that reaches *)
(* a pixel value has the shape int(n * (a / b)) or int(a / b) with small   *)
(* integers: a true division, one multiplication, a truncation.  The       *)
(* operators below compute these as IEEE-754 binary64 does: 53 significant *)
(* bits, round to nearest, ties to even.  A positive float is a record     *)
(* [m |-> bits, e |-> E]: m is the 53-bit significand, most significant    *)
(* bit first (m[1] = 1), and the value is 1.m[2]...m[53] * 2^E.  Zero is   *)
(* FZero.  Signs are handled by the callers (the operations are odd).      *)
(***************************************************************************)

FZero == [m |-> << >>, e |-> 0]

RECURSIVE Pow2(_)
Pow2(k) ==
    IF k = 0 THEN 1
    ELSE LET h == Pow2(k \div 2) IN IF k % 2 = 0 THEN h * h ELSE 2 * h * h

Abs(x) == IF x < 0 THEN -x ELSE x

\* F of the value of e, e being computed once.
Once(F(_), e) == CHOOSE r \in { F(x) : x \in {e} } : TRUE

SignOf(x) == IF x < 0 THEN -1 ELSE 1

Max2(a, b) == IF a >= b THEN a ELSE b

Min2(a, b) == IF a <= b THEN a ELSE b

\* The smallest k with num * 2^k >= den (num >= 1).
RECURSIVE ShiftUp(_, _)
ShiftUp(num, den) == IF num >= den THEN 0 ELSE 1 + ShiftUp(2 * num, den)

\* The largest k with den * 2^k <= num (num >= den).
RECURSIVE ShiftDown(_, _)
ShiftDown(num, den) == IF 2 * den > num THEN 0 ELSE 1 + ShiftDown(num, 2 * den)

\* n >= 1 binary digits of r / den after the point (r < den), followed by the
\* remainder left: <<bits, remainder>>.  The digits are produced one long
\* division step at a time; the two halves are computed in turn.
RECURSIVE FracBits(_, _, _)
FracBits(r, den, n) ==
    IF n = 1
    THEN LET r2 == 2 * r
             b  == IF r2 >= den THEN 1 ELSE 0
         IN  <<<<b>>, r2 - b * den>>
    ELSE LET h     == n \div 2
             left  == FracBits(r, den, h)
             right == FracBits(left[2], den, n - h)
         IN  <<left[1] \o right[1], right[2]>>

\* MantBits zeros.
ZeroBits ==
    <<0, 0, 0, 0, 0, 0, 0, 0, 0, 0, 0, 0, 0, 0, 0, 0, 0, 0, 0, 0, 0, 0, 0, 0, 0, 0, 0,
      0, 0, 0, 0, 0, 0, 0, 0, 0, 0, 0, 0, 0, 0, 0, 0, 0, 0, 0, 0, 0, 0, 0, 0, 0, 0>>

MantBits == Len(ZeroBits)

\* bits + 1, as a bit sequence of the same length (not all ones: the caller
\* tests AllOnes first): the last 0 becomes 1 and the 1s after it 0.
IncBits(bits) ==
    LET j == CHOOSE i \in 1..Len(bits) :
                 bits[i] = 0 /\ \A z \in (i + 1)..Len(bits) : bits[z] = 1
    IN  SubSeq(bits, 1, j - 1) \o <<1>> \o SubSeq(ZeroBits, 1, Len(bits) - j)

AllOnes(bits) == \A i \in 1..Len(bits) : bits[i] = 1

\* Round to nearest, ties to even: `bits` are the leading MantBits digits of
\* a value 1.xxx * 2^e, `guard` the next digit, `sticky` whether any digit
\* after that is non-zero.
RoundNearestEven(bits, e, guard, sticky) ==
    IF guard = 1 /\ (sticky \/ bits[Len(bits)] = 1)
    THEN IF AllOnes(bits)
         THEN [m |-> <<1>> \o SubSeq(ZeroBits, 1, Len(bits) - 1), e |-> e + 1]
         ELSE [m |-> IncBits(bits), e |-> e]
    ELSE [m |-> bits, e |-> e]

\* numer / denom for integers numer >= 0, denom >= 1: Python's true division
\* of two ints.
FDiv(numer, denom) ==
    IF numer = 0 THEN FZero
    ELSE LET up   == IF numer < denom THEN ShiftUp(numer, denom) ELSE 0
             down == IF numer >= denom THEN ShiftDown(numer, denom) ELSE 0
             num  == numer * Pow2(up)
             den  == denom * Pow2(down)
             fb   == FracBits(num - den, den, MantBits)
             bits == <<1>> \o SubSeq(fb[1], 1, MantBits - 1)
         IN  RoundNearestEven(bits, down - up, fb[1][MantBits], fb[2] # 0)

\* The binary digits of n >= 1, most significant first.
RECURSIVE IntBits(_)
IntBits(n) == IF n < 2 THEN <<n>> ELSE IntBits(n \div 2) \o <<n % 2>>

\* The integer a bit sequence spells (at most 30 bits).
RECURSIVE BitsInt(_)
BitsInt(bits) ==
    IF bits = << >> THEN 0
    ELSE IF Len(bits) = 1 THEN bits[1]
    ELSE LET h == Len(bits) \div 2
         IN  BitsInt(SubSeq(bits, 1, h)) * Pow2(Len(bits) - h)
               + BitsInt(SubSeq(bits, h + 1, Len(bits)))

\* bits * n + carry: <<the Len(bits) low digits, the carry out>>.
RECURSIVE MulStep(_, _, _)
MulStep(bits, n, carry) ==
    IF Len(bits) = 1
    THEN LET t == bits[1] * n + carry IN <<<<t % 2>>, t \div 2>>
    ELSE LET h    == Len(bits) \div 2
             low  == MulStep(SubSeq(bits, h + 1, Len(bits)), n, carry)
             c    == low[2]
         IN  IF c < 0 THEN <<bits, c>>     \* never: the low half is computed first
             ELSE LET high == MulStep(SubSeq(bits, 1, h), n, c)
                  IN  <<high[1] \o low[1], high[2]>>

\* bits * n as a bit sequence, most significant first, no leading zero
\* (bits[1] = 1, n >= 1).
MulBits(bits, n) ==
    LET p == MulStep(bits, n, 0)
    IN  (IF p[2] = 0 THEN << >> ELSE IntBits(p[2])) \o p[1]

\* flt * mul for a float flt >= 0 and an integer mul >= 0 (an int is
\* converted to a float exactly), rounded to a float.
FMulInt(flt, mul) ==
    IF flt = FZero \/ mul = 0 THEN FZero
    ELSE LET p    == MulBits(flt.m, mul)
             L    == Len(p)
             e    == flt.e + (L - MantBits)
         IN  IF L = MantBits THEN [m |-> p, e |-> e]
             ELSE RoundNearestEven(SubSeq(p, 1, MantBits), e, p[MantBits + 1],
                                   \E i \in (MantBits + 2)..L : p[i] = 1)

\* int(flt) for a float flt >= 0: the integer part.
FTrunc(flt) ==
    IF flt = FZero \/ flt.e < 0 THEN 0 ELSE BitsInt(SubSeq(flt.m, 1, flt.e + 1))

\* n >= 1 without its factors of two.
RECURSIVE OddPart(_)
OddPart(n) == IF n % 2 = 0 THEN OddPart(n \div 2) ELSE n

\* The two roundings of k * (p / q) cannot change its integer part (k, p >= 0,
\* q >= 1, k * p < 2^31).  Either p / q is a float exactly (its reduced
\* denominator is a power of two: the odd part of q divides p), and so is the
\* product; or q does not divide k * p, so the exact product lies at least
\* 1 / q from every integer while the roundings move it by less than
\* k * p / q * 2^-52.
RoundsSafely(k, p, q) ==
    \/ (k * p) % q # 0
    \/ p % OddPart(q) = 0

\* int(k * (p / q)) as Python computes it, for integers k, p and q >= 1: the
\* integer part of the exact product where the roundings cannot change it,
\* the division, the multiplication and the truncation of the floats where
\* they can.
TruncMulDiv(k, p, q) ==
    LET ak == Abs(k)
        ap == Abs(p)
    IN  SignOf(k) * SignOf(p) *
           (IF RoundsSafely(ak, ap, q) THEN (ak * ap) \div q
            ELSE FTrunc(FMulInt(FDiv(ap, q), ak)))

\* int(p / q): a true division, truncated toward zero.
TruncDiv(p, q) ==
    LET ap == Abs(p)
    IN  SignOf(p) * (IF RoundsSafely(1, ap, q) THEN ap \div q ELSE FTrunc(FDiv(ap, q)))

(***************************************************************************)
(* Geometry: the anchor resolver (two copies in the source) and the        *)
(* preview scaling cap.                                                    *)
(***************************************************************************)
AnchorNames ==
    {"top-left", "top-center", "top-right", "middle-left", "center",
     "middle-right", "bottom-left", "bottom-center", "bottom-right"}

Margin == 16

\* The mutant of AnchorPos used to test the anchor claims: the right and
\* bottom edges lose their margin.
AnchorPosNoMargin(W, H, tw, th, anchor) ==
    LET mapping ==
            [a \in AnchorNames |->
                CASE a = "top-left"      -> <<Margin, Margin>>
                  [] a = "top-center"    -> <<(W - tw) \div 2, Margin>>
                  [] a = "top-right"     -> <<W - tw, Margin>>
                  [] a = "middle-left"   -> <<Margin, (H - th) \div 2>>
                  [] a = "center"        -> <<(W - tw) \div 2, (H - th) \div 2>>
                  [] a = "middle-right"  -> <<W - tw, (H - th) \div 2>>
                  [] a = "bottom-left"   -> <<Margin, H - th>>
                  [] a = "bottom-center" -> <<(W - tw) \div 2, H - th>>
                  [] a = "bottom-right"  -> <<W - tw, H - th>>]
    IN  IF anchor \in AnchorNames THEN mapping[anchor] ELSE mapping["bottom-right"]

\* exporter._anchor_pos.  Python's // on ints is floor division, as \div is.
AnchorPos(W, H, tw, th, anchor) ==
    LET mapping ==
            [a \in AnchorNames |->
                CASE a = "top-left"      -> <<Margin, Margin>>
                  [] a = "top-center"    -> <<(W - tw) \div 2, Margin>>
                  [] a = "top-right"     -> <<W - tw - Margin, Margin>>
                  [] a = "middle-left"   -> <<Margin, (H - th) \div 2>>
                  [] a = "center"        -> <<(W - tw) \div 2, (H - th) \div 2>>
                  [] a = "middle-right"  -> <<W - tw - Margin, (H - th) \div 2>>
                  [] a = "bottom-left"   -> <<Margin, H - th - Margin>>
                  [] a = "bottom-center" -> <<(W - tw) \div 2, H - th - Margin>>
                  [] a = "bottom-right"  -> <<W - tw - Margin, H - th - Margin>>]
    IN  IF anchor \in AnchorNames THEN mapping[anchor] ELSE mapping["bottom-right"]

\* The preview's resolver with an unknown name resolved to the top-left
\* corner: used to test the fallback claim.
PreviewAnchorPosTopLeft(W, H, tw, th, anchor) ==
    IF anchor \in AnchorNames THEN AnchorPos(W, H, tw, th, anchor)
    ELSE <<Margin, Margin>>

\* PreviewLabel._anchor_pos: the copy the preview and _compose_preview_like use.
PreviewAnchorPos(W, H, tw, th, anchor) ==
    LET mapping ==
            [a \in AnchorNames |->
                CASE a = "top-left"      -> <<Margin, Margin>>
                  [] a = "top-center"    -> <<(W - tw) \div 2, Margin>>
                  [] a = "top-right"     -> <<W - tw - Margin, Margin>>
                  [] a = "middle-left"   -> <<Margin, (H - th) \div 2>>
                  [] a = "center"        -> <<(W - tw) \div 2, (H - th) \div 2>>
                  [] a = "middle-right"  -> <<W - tw - Margin, (H - th) \div 2>>
                  [] a = "bottom-left"   -> <<Margin, H - th - Margin>>
                  [] a = "bottom-center" -> <<(W - tw) \div 2, H - th - Margin>>
                  [] a = "bottom-right"  -> <<W - tw - Margin, H - th - Margin>>]
    IN  IF anchor \in AnchorNames THEN mapping[anchor] ELSE mapping["bottom-right"]

PreviewMaxW == 900

PreviewMaxH == 700

\* The preview scaling cap, PreviewLabel.load_image lines 98-101 (and, the same
\* statements, _compose_preview_like lines 994-999):
\*   ratio = min(max_w / img.width, max_h / img.height, 1.0)
\*   if ratio < 1: img = img.resize((int(img.width * ratio), int(img.height * ratio)))
\* Float division is monotone, so the smallest quotient is the quotient of the
\* smallest fraction (compared exactly by cross-multiplication: 900/w <= 700/h
\* iff 900*h <= 700*w), and it is below 1.0 exactly when the fraction is.
ScaledSize(w, h) ==
    IF PreviewMaxW * h <= PreviewMaxH * w
    THEN IF PreviewMaxW < w
         THEN <<TruncMulDiv(w, PreviewMaxW, w), TruncMulDiv(h, PreviewMaxW, w)>>
         ELSE <<w, h>>
    ELSE IF PreviewMaxH < h
         THEN <<TruncMulDiv(w, PreviewMaxH, h), TruncMulDiv(h, PreviewMaxH, h)>>
         ELSE <<w, h>>

\* Image.resize refuses a size with a side of 0 (or less): it raises
\* ValueError("height and width must be > 0").
ValueError == <<"ValueError">>
Resize(size) ==
    Once(LAMBDA sz : IF sz[1] <= 0 \/ sz[2] <= 0 THEN ValueError ELSE sz, size)

\* PreviewLabel.load_image on a label that has no image: the size of the
\* preview base (_pil_base) afterwards.  When the resize raises, the except
\* clause shows the warning and _pil_base is not assigned: no image.
PreviewCanvas(w, h) ==
    Once(LAMBDA img : IF img = ValueError THEN << >> ELSE img, Resize(ScaledSize(w, h)))

\* MainWindow._compose_preview_like: the size of the image it composes on, or
\* the ValueError of the resize, which it lets through to its caller.
PreviewLikeCanvas(w, h) == Resize(ScaledSize(w, h))

\* exporter.export_batch: base = Image.open(p).convert('RGBA');
\* W, H = base.width, base.height: the source at its own size.
ExportBatchCanvas(w, h) == <<w, h>>

\* exporter._maybe_resize: the size given to img.resize, or the size of the
\* image when it is returned as it is.  A resize mode of None is "none".
\*   ratio = val / W;     (val, max(1, int(H*ratio)))
\*   ratio = val / H;     (max(1, int(W*ratio)), val)
\*   ratio = val / 100.0; (max(1, int(W*ratio)), max(1, int(H*ratio)))
MaybeResize(W, H, mode, val) ==
    IF mode = "none" \/ val = 0 THEN <<W, H>>
    ELSE IF mode = "width" /\ val > 0 THEN <<val, Max2(1, TruncMulDiv(H, val, W))>>
    ELSE IF mode = "height" /\ val > 0 THEN <<Max2(1, TruncMulDiv(W, val, H)), val>>
    ELSE IF mode = "percent" /\ val > 0
         THEN <<Max2(1, TruncMulDiv(W, val, 100)), Max2(1, TruncMulDiv(H, val, 100))>>
    ELSE <<W, H>>

\* The resize written out in MainWindow._export_preview_like_batch (lines
\* 957-974): no test of the sign of val; percent uses max(1, val) / 100.0.
InlineResize(W, H, mode, val) ==
    IF mode = "none" \/ val = 0 THEN <<W, H>>
    ELSE IF mode = "width" THEN <<val, Max2(1, TruncMulDiv(H, val, W))>>
    ELSE IF mode = "height" THEN <<Max2(1, TruncMulDiv(W, val, H)), val>>
    ELSE IF mode = "percent"
         THEN <<Max2(1, TruncMulDiv(W, Max2(1, val), 100)),
                Max2(1, TruncMulDiv(H, Max2(1, val), 100))>>
    ELSE <<W, H>>

(***************************************************************************)
(* Offset-ratio translation.                                               *)
(***************************************************************************)
MaxOffset == 17

MaxDim == 12

\* Canvas dimensions the translation is applied to.
Dims == (1..MaxDim) \cup {49, PreviewMaxH, PreviewMaxW, 2 * PreviewMaxH, 4000}

Offsets == ((-MaxOffset)..MaxOffset) \cup {-29, 29}

\* MainWindow._offset_ratio, one axis: rx = (x - ax) / max(1, img.width) with
\* x = ax + offset, so x - ax is the integer offset; the ratio is the float
\* nearest to off / max(1, dim), kept as sign and magnitude.
OffsetRatio(off, dim) ==
    [sign |-> SignOf(off), mag |-> FDiv(Abs(off), Max2(1, dim))]

\* export_batch: ox = int(offset_ratio[0] * W), for a canvas of W >= 1 pixels.
\* The float product is rounded, then int() truncates toward zero.
RatioToPixels(ratio, W) == ratio.sign * FTrunc(FMulInt(ratio.mag, W))

(***************************************************************************)
(* File names.  A path or a name is a sequence of one-character strings.   *)
(***************************************************************************)
LowerOf ==
    [c \in {"A", "B", "C", "D", "E", "F", "G", "H", "I", "J", "K", "L", "M", "N",
            "O", "P", "Q", "R", "S", "T", "U", "V", "W", "X", "Y", "Z"} |->
        CASE c = "A" -> "a" [] c = "B" -> "b" [] c = "C" -> "c" [] c = "D" -> "d"
          [] c = "E" -> "e" [] c = "F" -> "f" [] c = "G" -> "g" [] c = "H" -> "h"
          [] c = "I" -> "i" [] c = "J" -> "j" [] c = "K" -> "k" [] c = "L" -> "l"
          [] c = "M" -> "m" [] c = "N" -> "n" [] c = "O" -> "o" [] c = "P" -> "p"
          [] c = "Q" -> "q" [] c = "R" -> "r" [] c = "S" -> "s" [] c = "T" -> "t"
          [] c = "U" -> "u" [] c = "V" -> "v" [] c = "W" -> "w" [] c = "X" -> "x"
          [] c = "Y" -> "y" [] c = "Z" -> "z"]

\* str.lower()
Lower(str) ==
    [i \in 1..Len(str) |-> IF str[i] \in DOMAIN LowerOf THEN LowerOf[str[i]] ELSE str[i]]

\* The index of the last occurrence of ch in str, 0 when there is none.
LastIndexOf(str, ch) ==
    IF \E i \in 1..Len(str) : str[i] = ch
    THEN CHOOSE i \in 1..Len(str) :
             str[i] = ch /\ \A j \in (i + 1)..Len(str) : str[j] # ch
    ELSE 0

\* os.path.basename (POSIX): what follows the last "/".
Basename(path) == SubSeq(path, LastIndexOf(path, "/") + 1, Len(path))

\* os.path.splitext on a base name: <<root, ext>>.  The extension starts at the
\* last dot, unless only dots precede it (leading dots belong to the root).
SplitExt(base) ==
    LET d == LastIndexOf(base, ".")
    IN  IF d > 0 /\ \E i \in 1..(d - 1) : base[i] # "."
        THEN <<SubSeq(base, 1, d - 1), SubSeq(base, d, Len(base))>>
        ELSE <<base, << >> >>

DigitChar == <<"0", "1", "2", "3", "4", "5", "6", "7", "8", "9">>

\* str(i) for an integer i >= 0.
RECURSIVE Digits(_)
Digits(i) ==
    IF i < 10 THEN <<DigitChar[i + 1]>>
    ELSE Digits(i \div 10) \o <<DigitChar[(i % 10) + 1]>>

\* exporter.export_batch line 146: out_ext = 'png' if fmt.lower() == 'png' else 'jpg'.
OutExt(fmt) == IF Lower(fmt) = <<"p", "n", "g">> THEN <<"p", "n", "g">> ELSE <<"j", "p", "g">>

\* The mutant of ApplyNaming used to test the naming claims: the stem is
\* lower-cased.
ApplyNamingLowered(path, settings, out_ext) ==
    LET stem == Lower(SplitExt(Basename(path))[1])
    IN  (IF settings.name_rule = "prefix" /\ settings.prefix # << >>
         THEN settings.prefix \o stem
         ELSE IF settings.name_rule = "suffix" /\ settings.suffix # << >>
              THEN stem \o settings.suffix
              ELSE stem) \o <<".">> \o out_ext

\* exporter._apply_naming
ApplyNaming(path, settings, out_ext) ==
    LET stem == SplitExt(Basename(path))[1]
    IN  (IF settings.name_rule = "prefix" /\ settings.prefix # << >>
         THEN settings.prefix \o stem
         ELSE IF settings.name_rule = "suffix" /\ settings.suffix # << >>
              THEN stem \o settings.suffix
              ELSE stem) \o <<".">> \o out_ext

\* MainWindow._build_output_path lines 1065-1072: <<stem, ext>> after the
\* naming rule, before the collision check.
BuildStemExt(src_path, settings) ==
    LET stem0 == SplitExt(Basename(src_path))[1]
        stem  == IF settings.name_rule = "prefix" THEN settings.prefix \o stem0
                 ELSE IF settings.name_rule = "suffix" THEN stem0 \o settings.suffix
                 ELSE stem0
        ext   == IF Lower(settings.fmt) \in {<<"j", "p", "e", "g">>, <<"j", "p", "g">>}
                 THEN <<".", "j", "p", "g">> ELSE <<".", "p", "n", "g">>
    IN  <<stem, ext>>

\* The first free candidate of exporter._safe_filename from index i on.
RECURSIVE SafeFilenameFrom(_, _, _, _)
SafeFilenameFrom(name, ext, existing, i) ==
    LET target == name \o <<"_">> \o Digits(i) \o ext
    IN  IF target \in existing THEN SafeFilenameFrom(name, ext, existing, i + 1)
        ELSE target

\* The mutant of SafeFilename used to test the collision claims: no loop, the
\* plain name is returned whether it exists or not.
SafeFilenameNoLoop(base_name, existing) == base_name

\* exporter._safe_filename: `existing` is the set of names os.path.exists finds
\* in output_dir; the result is the name joined to output_dir.
SafeFilename(base_name, existing) ==
    LET se == SplitExt(base_name)
    IN  IF base_name \in existing THEN SafeFilenameFrom(se[1], se[2], existing, 1)
        ELSE base_name

\* The first free candidate of _build_output_path from index i on.
RECURSIVE BuildOutputPathFrom(_, _, _, _)
BuildOutputPathFrom(stem, ext, existing, i) ==
    LET c == stem \o <<"(">> \o Digits(i) \o <<")">> \o ext
    IN  IF c \in existing THEN BuildOutputPathFrom(stem, ext, existing, i + 1)
        ELSE c

\* The mutant of BuildOutputPath used to test the collision claims: the first
\* numbered candidate is returned unchecked.
BuildOutputPathUnchecked(src_path, settings, existing) ==
    LET se == BuildStemExt(src_path, settings)
    IN  IF se[1] \o se[2] \in existing
        THEN se[1] \o <<"(", "1", ")">> \o se[2]
        ELSE se[1] \o se[2]

\* MainWindow._build_output_path
BuildOutputPath(src_path, settings, existing) ==
    LET se        == BuildStemExt(src_path, settings)
        candidate == se[1] \o se[2]
    IN  IF candidate \notin existing THEN candidate
        ELSE BuildOutputPathFrom(se[1], se[2], existing, 1)

(***************************************************************************)
(* Inputs of the pure functions.                                           *)
(***************************************************************************)
MaxCanvas == 4
MaxLayer == 5
CanvasWidths == (1..MaxCanvas) \cup {PreviewMaxW}
CanvasHeights == (1..MaxCanvas) \cup {PreviewMaxH}
LayerSizes == 1..MaxLayer
AnchorInputs == AnchorNames \cup {"nowhere", "", "Center"}

MaxSmallImage == 3
ImageDims == (1..MaxSmallImage) \cup
             {PreviewMaxH, PreviewMaxH + 1, PreviewMaxW, PreviewMaxW + 1,
              2 * PreviewMaxH, 2 * PreviewMaxW, 1177, 4000, 9000}

SrcPaths ==
    { <<"d", "/", "P", "h", "o", "t", "o", ".", "J", "P", "G">>,
      <<"d", ".", "x", "/", "I", "m", "g">>,
      <<"a", ".", "t", "a", "r", ".", "g", "z">>,
      <<".", "e", "n", "v">>,
      <<"P", "h", "o", "t", "o", ".", "p", "n", "g">> }
Formats == { <<"p", "n", "g">>, <<"j", "p", "e", "g">>, <<"P", "N", "G">>, <<"j", "p", "g">> }
NameRules == {"keep", "prefix", "suffix"}
Affixes == { << >>, <<"w", "_">> }
NameSettings == [name_rule : NameRules, prefix : Affixes, suffix : Affixes, fmt : Formats]

\* The names that may already exist in the output directory: the plain name of
\* Photo and its numbered forms up to MaxExisting, in both numbering styles.
MaxExisting == 2
PlainNames == { <<"P", "h", "o", "t", "o", ".", "p", "n", "g">>,
                <<"P", "h", "o", "t", "o", ".", "j", "p", "g">> }
NumberedNames ==
    UNION { { <<"P", "h", "o", "t", "o", "_">> \o Digits(i) \o <<".", "p", "n", "g">>,
              <<"P", "h", "o", "t", "o", "(">> \o Digits(i) \o <<")", ".", "p", "n", "g">> }
            : i \in 1..MaxExisting }
ResolveSettings == [name_rule : {"keep"}, prefix : {<< >>}, suffix : {<< >>},
                    fmt : { <<"p", "n", "g">>, <<"j", "p", "e", "g">> }]
\* Watermark scaling and export resize: sizes, scale percents and resize
\* values, with the limits of the controls (1..400 and 1..10000) and values a
\* direct caller can pass.
SizeDims == {1, 3, 49, 98, 100, 900}
ScalePercents == {1, 20, 29, 100, 400}
ResizeModes == {"none", "width", "height", "percent"}
ResizeValues == {-1, 0, 1, 29, 100, 150, 10000}

ResolvePaths == { <<"d", "/", "P", "h", "o", "t", "o", ".", "J", "P", "G">>,
                  <<"P", "h", "o", "t", "o", ".", "p", "n", "g">> }

(***************************************************************************)
(* Watermark layers and their placement, as the preview and the export     *)
(* compute them.  An image is its size <<w, h>>; no image is << >>.  Qt's   *)
(* font metrics are outside the repository: the advance of a text is taken *)
(* proportional to its length and to the pixel size of the font.           *)
(***************************************************************************)
NoImage == << >>

\* str.isspace for one character of the model's alphabet, ASCII: the space,
\* tab, line feed, vertical tab, form feed, carriage return and the four
\* separators FS, GS, RS, US (code points 9-13, 28-31 and 32).
IsSpace(c) == c \in {" ", "\t", "\n", "", "\f", "\r", "", "", "", ""}

\* str.strip(): leading and trailing whitespace removed.
RECURSIVE Strip(_)
Strip(str) ==
    IF str = << >> THEN str
    ELSE IF IsSpace(Head(str)) THEN Strip(Tail(str))
    ELSE IF IsSpace(str[Len(str)]) THEN Strip(SubSeq(str, 1, Len(str) - 1))
    ELSE str

\* QFontMetrics.horizontalAdvance and QFontMetrics.height for a pixel size.
HorizontalAdvance(text, px) == Len(text) * (px \div 2)
FontHeight(px) == px + px \div 4

\* cos(q degrees) * 10^8, rounded, for q = 0..90 at index q + 1; the sine of
\* q degrees is the cosine of 90 - q.
CosTable ==
    <<
       100000000, 99984770, 99939083, 99862953, 99756405, 99619470, 99452190,
       99254615, 99026807, 98768834, 98480775, 98162718, 97814760, 97437006,
       97029573, 96592583, 96126170, 95630476, 95105652, 94551858, 93969262,
       93358043, 92718385, 92050485, 91354546, 90630779, 89879405, 89100652,
       88294759, 87461971, 86602540, 85716730, 84804810, 83867057, 82903757,
       81915204, 80901699, 79863551, 78801075, 77714596, 76604444, 75470958,
       74314483, 73135370, 71933980, 70710678, 69465837, 68199836, 66913061,
       65605903, 64278761, 62932039, 61566148, 60181502, 58778525, 57357644,
       55919290, 54463904, 52991926, 51503807, 50000000, 48480962, 46947156,
       45399050, 43837115, 42261826, 40673664, 39073113, 37460659, 35836795,
       34202014, 32556815, 30901699, 29237170, 27563736, 25881905, 24192190,
       22495105, 20791169, 19080900, 17364818, 15643447, 13917310, 12186934,
       10452846, 8715574, 6975647, 5233596, 3489950, 1745241, 0
    >>

\* floor(w * c + h * s) for the non-negative factors c, s given in units of
\* 10^-8, computed in two halves of four digits to stay within 32 bits.
Extent(w, c, h, s) ==
    LET hi == w * (c \div 10000) + h * (s \div 10000)
        lo == w * (c % 10000) + h * (s % 10000)
    IN  (hi + lo \div 10000) \div 10000

\* ceil(max) - floor(min) of the corner coordinates side / 2 + e / 2 and
\* side / 2 - e / 2, where e is not an integer and m = floor(e).
Expanded(side, m) == (side + m) \div 2 + 1 - ((side - m - 1) \div 2)

\* The size of Image.rotate(angle, expand=True) for a bitmap of w x h pixels
\* and angle % 360 = a: an a of 0 or 180 keeps the size and 90 or 270 swaps
\* width and height (the transposes); any other angle gives the bounding box
\* of the rectangle turned about its centre, nw = ceil(max(xx)) -
\* floor(min(xx)) over the four corners, whose extent is w * |cos| + h * |sin|
\* wide and w * |sin| + h * |cos| high.
RotatedBy(w, h, a) ==
    LET d == a % 180
        q == IF d > 90 THEN 180 - d ELSE d
        c == CosTable[q + 1]
        s == CosTable[90 - q + 1]
    IN  IF a \in {0, 180} THEN <<w, h>>
        ELSE IF a \in {90, 270} THEN <<h, w>>
        ELSE <<Expanded(w, Extent(w, c, h, s)), Expanded(h, Extent(w, s, h, c))>>

\* Image.rotate(angle, expand=True) of a bitmap of the given size (the size is
\* computed once, then turned).
Rotated(size, angle) ==
    Once(LAMBDA sz : RotatedBy(sz[1], sz[2], angle % 360), size)

\* The watermark image scaled to wm_scale percent of the canvas width W:
\* target_w = max(1, int(W * wm_scale / 100.0)), the height in proportion.
ScaledWatermark(wm, wm_scale, W) ==
    LET target_w == Max2(1, TruncDiv(W * wm_scale, 100))
    IN  <<target_w, Max2(1, TruncMulDiv(wm[2], target_w, wm[1]))>>

\* The pen alpha of a text layer, int(255 * opacity), the opacity being
\* percent / 100.0 as the handlers pass it.
TextAlpha(percent) == TruncMulDiv(255, percent, 100)

\* The alpha of a watermark image pixel of alpha v: int(v * opacity) when the
\* opacity is below 1, else v.
ImageAlpha(v, percent) ==
    IF percent < 100 THEN TruncMulDiv(v, percent, 100) ELSE v

\* What a composite draws: the canvas, the payload drawn ("text", "image" or
\* "none"), the layer size given to the anchor resolver, the size of the bitmap
\* pasted, the anchor base, the paste position, the text, the alpha of the
\* pen (text) or of an opaque pixel of the watermark image, and the pixel size
\* given to the font (0 when no text is drawn).
NothingDrawn(canvas) ==
    [canvas |-> canvas, payload |-> "none", layer |-> <<0, 0>>, pasted |-> <<0, 0>>,
     base |-> <<0, 0>>, pos |-> <<0, 0>>, text |-> << >>, alpha |-> 0, px |-> 0]

\* The image branch of both composites (update_composite lines 152-170,
\* _compose_preview_like lines 1001-1020).
ImageComposite(pv, canvas) ==
    LET wm == Rotated(ScaledWatermark(pv.wm_image_pil, pv.wm_scale, canvas[1]), pv.rotation)
        a  == PreviewAnchorPos(canvas[1], canvas[2], wm[1], wm[2], pv.anchor)
    IN  [canvas |-> canvas, payload |-> "image", layer |-> wm, pasted |-> wm,
         base |-> a, pos |-> <<a[1] + pv.offset[1], a[2] + pv.offset[2]>>,
         text |-> << >>, alpha |-> ImageAlpha(255, pv.opacity), px |-> 0]

\* The text branch with the draw position kept inside the canvas: used to
\* test the placement claims.
TextCompositeClamped(pv, canvas, text) ==
    LET eff_px == Max2(6, Min2(400, pv.font_size))
        tw     == Max2(1, HorizontalAdvance(text, eff_px))
        th     == Max2(1, FontHeight(eff_px))
        a      == PreviewAnchorPos(canvas[1], canvas[2], tw, th, pv.anchor)
    IN  [canvas |-> canvas, payload |-> "text", layer |-> <<tw, th>>,
         pasted |-> Rotated(<<tw, th>>, pv.rotation),
         base |-> a,
         pos |-> <<Max2(0, Min2(canvas[1] - 1, a[1] + pv.offset[1])),
                   Max2(0, Min2(canvas[2] - 1, a[2] + pv.offset[2]))>>,
         text |-> text, alpha |-> TextAlpha(pv.opacity), px |-> eff_px]

\* The text branch of both composites (update_composite lines 174-199,
\* _compose_preview_like lines 1022-1050): the anchor is resolved with the
\* size of the text before rotation.
TextComposite(pv, canvas, text) ==
    LET eff_px == Max2(6, Min2(400, pv.font_size))
        tw     == Max2(1, HorizontalAdvance(text, eff_px))
        th     == Max2(1, FontHeight(eff_px))
        a      == PreviewAnchorPos(canvas[1], canvas[2], tw, th, pv.anchor)
    IN  [canvas |-> canvas, payload |-> "text", layer |-> <<tw, th>>,
         pasted |-> Rotated(<<tw, th>>, pv.rotation),
         base |-> a, pos |-> <<a[1] + pv.offset[1], a[2] + pv.offset[2]>>,
         text |-> text, alpha |-> TextAlpha(pv.opacity), px |-> eff_px]

\* update_composite drawing the default text in place of an empty one: used
\* to test the empty text claim.
UpdateCompositeWithPlaceholder(pv) ==
    IF pv.pil_base = NoImage THEN NothingDrawn(NoImage)
    ELSE IF pv.wm_mode = "image" /\ pv.wm_image_pil # NoImage
         THEN ImageComposite(pv, pv.pil_base)
         ELSE TextComposite(pv, pv.pil_base,
                            IF pv.watermark_text # << >> THEN pv.watermark_text
                            ELSE <<"D", "E", "M", "O">>)

\* PreviewLabel.update_composite on the loaded image.
UpdateComposite(pv) ==
    IF pv.pil_base = NoImage THEN NothingDrawn(NoImage)
    ELSE IF pv.wm_mode = "image" /\ pv.wm_image_pil # NoImage
         THEN ImageComposite(pv, pv.pil_base)
         ELSE IF pv.watermark_text # << >>
              THEN TextComposite(pv, pv.pil_base, pv.watermark_text)
              ELSE NothingDrawn(pv.pil_base)

\* _compose_preview_like left by the ValueError of the resize: nothing is
\* composed, and _export_preview_like_batch counts the image as failed.
Raised == [NothingDrawn(NoImage) EXCEPT !.payload = "ValueError"]

\* MainWindow._compose_preview_like for a source image of size src and the
\* text on_export passes.
ComposePreviewLike(pv, src, text) ==
    LET img == PreviewLikeCanvas(src[1], src[2])
    IN  IF img = ValueError THEN Raised
        ELSE IF pv.wm_mode = "image" /\ pv.wm_image_pil # NoImage
             THEN ImageComposite(pv, img)
             ELSE TextComposite(pv, img, text)

\* export_batch with the text measured as Qt reports it, without the floor of
\* 1 on width and height: used to test the degenerate layer claim.
ExportBatchCompositeUnfloored(src, text, font_size, opacity, anchor, offset_ratio) ==
    LET base   == ExportBatchCanvas(src[1], src[2])
        eff_px == Max2(6, Min2(400, font_size))
        tw     == HorizontalAdvance(text, eff_px)
        th     == FontHeight(eff_px)
        a      == AnchorPos(base[1], base[2], tw, th, anchor)
    IN  [canvas |-> base, payload |-> "text", layer |-> <<tw, th>>,
         pasted |-> <<tw, th>>, base |-> a,
         pos |-> <<a[1] + RatioToPixels(offset_ratio[1], base[1]),
                   a[2] + RatioToPixels(offset_ratio[2], base[2])>>,
         text |-> text, alpha |-> TextAlpha(opacity), px |-> eff_px]

\* exporter.export_batch, lines 128-142, for a source image of size src: the
\* text layer of _render_text_image on the full-size canvas, moved from the
\* anchor by the offset ratio times the canvas size; no rotation, no guard on
\* the text.
ExportBatchComposite(src, text, font_size, opacity, anchor, offset_ratio) ==
    LET base   == ExportBatchCanvas(src[1], src[2])
        eff_px == Max2(6, Min2(400, font_size))
        tw     == Max2(1, HorizontalAdvance(text, eff_px))
        th     == Max2(1, FontHeight(eff_px))
        a      == AnchorPos(base[1], base[2], tw, th, anchor)
        ox     == RatioToPixels(offset_ratio[1], base[1])
        oy     == RatioToPixels(offset_ratio[2], base[2])
    IN  [canvas |-> base, payload |-> "text", layer |-> <<tw, th>>,
         pasted |-> <<tw, th>>, base |-> a, pos |-> <<a[1] + ox, a[2] + oy>>,
         text |-> text, alpha |-> TextAlpha(opacity), px |-> eff_px]

\* Whether the pasted bitmap has a pixel of non-zero alpha: a text layer has
\* one when glyphs were drawn with a visible pen, an image layer when its
\* alpha was not scaled to zero.
Inked(comp) ==
    /\ comp.payload # "none"
    /\ comp.alpha > 0
    /\ comp.payload = "text" => comp.text # << >>

\* layer.paste(bitmap, (x, y), bitmap) into the transparent layer: Pillow
\* blends every band of the bitmap with the layer through the mask, the
\* bitmap's own alpha, so that under a bitmap pixel of alpha a the layer, of
\* alpha 0 before, gets the alpha (a * a + 0 * (255 - a)) / 255, rounded as
\* Pillow divides by 255: 0 up to a = 11, 255 at a = 255.
PasteAlpha(a) ==
    LET tmp == a * a + 128
    IN  ((tmp \div 256) + tmp) \div 256

\* The alpha of the layer under the ink of the bitmap pasted into it.
LayerAlpha(comp) == IF Inked(comp) THEN PasteAlpha(comp.alpha) ELSE 0

\* The mask of a paste: the pixels of the pasted bitmap whose alpha is not 0,
\* counted from its top left corner.  Which pixels they are is the renderer's
\* doing (the glyphs Qt draws, the pixels of the watermark file, the corners
\* Image.rotate leaves transparent), named here by ink: "solid", every pixel
\* of the bitmap, or "dot", the pixel at its centre only; the pixels of the
\* mask have the alpha comp.alpha.  A bitmap without ink has none.
Inks == {"solid", "dot"}
Mask(comp, ink) ==
    IF ~Inked(comp) THEN {}
    ELSE IF ink = "solid"
         THEN (0..(comp.pasted[1] - 1)) \X (0..(comp.pasted[2] - 1))
         ELSE { <<comp.pasted[1] \div 2, comp.pasted[2] \div 2>> }

\* layer.paste(bitmap, (x, y), bitmap) and Image.alpha_composite(img, layer):
\* the pixels of the canvas the layer is laid over, for the mask of the
\* bitmap.  The paste is clipped to the canvas and leaves the layer
\* transparent where the mask is 0 and where the alpha the paste gives it
\* rounds to 0; alpha_composite returns the pixels of the base where the
\* layer is transparent and blends the layer into the others.
Changed(comp, mask) ==
    IF LayerAlpha(comp) = 0 THEN {}
    ELSE { <<comp.pos[1] + q[1], comp.pos[2] + q[2]>> :
             q \in { m \in mask : /\ 0 <= comp.pos[1] + m[1]
                                  /\ comp.pos[1] + m[1] < comp.canvas[1]
                                  /\ 0 <= comp.pos[2] + m[2]
                                  /\ comp.pos[2] + m[2] < comp.canvas[2] } }

(***************************************************************************)
(* State.  fn, arg, res, pc: a pure function, its input, its result and    *)
(* whether it has been applied.  The other variables are those of a batch  *)
(* export: the implementation running (impl), its arguments, the output    *)
(* directory, the loop position and the counters.                          *)
(***************************************************************************)
VARIABLES fn, arg, res, pc,
          impl, image_paths, outcomes, out_dir, files, n, ok, fail, bpc, saved,
          text_edit, opacity_slider, anchor_combo, preview, timers, selected,
          exported, upc, wm_scale_spin, wm_type_combo, dragging, drag_start, gesture,
          images, list_widget, list_sel, btn_export, base_path, out_dir_edit,
          watermark, export_log, load_log, last_op, wpc, out_files

calcVars == <<fn, arg, res, pc>>
batchVars == <<impl, image_paths, outcomes, out_dir, files, n, ok, fail, bpc, saved>>
uiVars == <<text_edit, opacity_slider, anchor_combo, preview, timers, selected,
           exported, upc, wm_scale_spin, wm_type_combo, dragging, drag_start, gesture>>
winVars == <<images, list_widget, list_sel, btn_export, base_path, out_dir_edit,
            watermark, export_log, load_log, last_op, wpc, out_files>>
vars == <<calcVars, batchVars, uiVars, winVars>>

\* No batch export is running.
BatchIdle ==
    /\ impl = "none" /\ image_paths = << >> /\ outcomes = << >>
    /\ out_dir = "ok" /\ files = << >> /\ n = 0 /\ ok = 0 /\ fail = 0
    /\ bpc = "off" /\ saved = << >>

\* The window is not open.
UiIdle ==
    /\ text_edit = << >> /\ opacity_slider = 0 /\ anchor_combo = "none"
    /\ preview = [none |-> TRUE] /\ timers = << >> /\ selected = << >>
    /\ exported = [none |-> TRUE] /\ upc = "off"
    /\ wm_scale_spin = 0 /\ wm_type_combo = "none"
    /\ dragging = FALSE /\ drag_start = <<0, 0>>
    /\ gesture = [event |-> "none"]

\* The image list and the export panel are not in use.
WinIdle ==
    /\ images = << >> /\ list_widget = << >> /\ list_sel = {}
    /\ btn_export = FALSE /\ base_path = << >> /\ out_dir_edit = << >>
    /\ watermark = [mode |-> "text", text |-> << >>, image |-> FALSE]
    /\ export_log = [result |-> "none"] /\ load_log = [outcome |-> "none"]
    /\ last_op = "none" /\ wpc = "off" /\ out_files = {}

\* No pure function is being applied.
CalcIdle == fn = "none" /\ arg = [none |-> TRUE] /\ res = [none |-> TRUE] /\ pc = "off"

(***************************************************************************)
(* The pure functions as a state machine: an input is drawn, the function  *)
(* is applied to it, the result is kept.                                   *)
(***************************************************************************)
NoResult == [none |-> TRUE]

Init ==
    /\ BatchIdle /\ UiIdle /\ WinIdle
    /\ pc = "call"
    /\ res = NoResult
    /\ \/ /\ fn = "anchor"
          /\ arg \in [W : CanvasWidths, H : CanvasHeights, tw : LayerSizes,
                      th : LayerSizes, anchor : AnchorInputs]
       \/ /\ fn = "scale"
          /\ arg \in [w : ImageDims, h : ImageDims]
       \/ /\ fn = "ratio"
          /\ arg \in [off : Offsets, dim : Dims, W : Dims]
       \/ /\ fn = "name"
          /\ arg \in [path : SrcPaths, settings : NameSettings]
       \/ /\ fn = "resolve"
          /\ arg \in [path : ResolvePaths, settings : ResolveSettings,
                      existing : SUBSET (PlainNames \cup NumberedNames)]
       \/ /\ fn = "wmscale"
          /\ arg \in [W : SizeDims, scale : ScalePercents, w : SizeDims, h : SizeDims]
       \/ /\ fn = "resize"
          /\ arg \in [W : SizeDims, H : SizeDims, mode : ResizeModes, v : ResizeValues]

\* _anchor_pos, both copies, on the same canvas and layer.
CallAnchor ==
    /\ pc = "call" /\ fn = "anchor"
    /\ res' = [core    |-> AnchorPos(arg.W, arg.H, arg.tw, arg.th, arg.anchor),
               preview |-> PreviewAnchorPos(arg.W, arg.H, arg.tw, arg.th, arg.anchor)]
    /\ pc' = "ret"
    /\ UNCHANGED <<fn, arg>>
    /\ UNCHANGED <<batchVars, uiVars, winVars>>

\* The canvas each path composes on for a source image of w x h pixels.
CallScale ==
    /\ pc = "call" /\ fn = "scale"
    /\ res' = [preview |-> PreviewCanvas(arg.w, arg.h),
               like    |-> PreviewLikeCanvas(arg.w, arg.h),
               core    |-> ExportBatchCanvas(arg.w, arg.h)]
    /\ pc' = "ret"
    /\ UNCHANGED <<fn, arg>>
    /\ UNCHANGED <<batchVars, uiVars, winVars>>

\* _offset_ratio on a canvas of arg.dim pixels, then export_batch's
\* int(offset_ratio * W) on the same dimension and on arg.W.
CallRatio ==
    /\ pc = "call" /\ fn = "ratio"
    /\ res' = [same  |-> RatioToPixels(OffsetRatio(arg.off, arg.dim), arg.dim),
               other |-> RatioToPixels(OffsetRatio(arg.off, arg.dim), arg.W)]
    /\ pc' = "ret"
    /\ UNCHANGED <<fn, arg>>
    /\ UNCHANGED <<batchVars, uiVars, winVars>>

\* The output file name before the collision check, by both implementations.
CallNaming ==
    /\ pc = "call" /\ fn = "name"
    /\ res' = [core |-> ApplyNaming(arg.path, arg.settings, OutExt(arg.settings.fmt)),
               ui   |-> LET se == BuildStemExt(arg.path, arg.settings)
                        IN  se[1] \o se[2]]
    /\ pc' = "ret"
    /\ UNCHANGED <<fn, arg>>
    /\ UNCHANGED <<batchVars, uiVars, winVars>>

\* The output path both resolvers return for a directory holding arg.existing.
CallResolve ==
    /\ pc = "call" /\ fn = "resolve"
    /\ res' = [core |-> SafeFilename(ApplyNaming(arg.path, arg.settings,
                                                 OutExt(arg.settings.fmt)),
                                     arg.existing),
               ui   |-> BuildOutputPath(arg.path, arg.settings, arg.existing)]
    /\ pc' = "ret"
    /\ UNCHANGED <<fn, arg>>
    /\ UNCHANGED <<batchVars, uiVars, winVars>>

\* The watermark image of arg.w x arg.h pixels scaled for a canvas of width
\* arg.W, in update_composite and in _compose_preview_like.
CallWmScale ==
    /\ pc = "call" /\ fn = "wmscale"
    /\ res' = [preview |-> ScaledWatermark(<<arg.w, arg.h>>, arg.scale, arg.W),
               like    |-> ScaledWatermark(<<arg.w, arg.h>>, arg.scale, arg.W)]
    /\ pc' = "ret"
    /\ UNCHANGED <<fn, arg>>
    /\ UNCHANGED <<batchVars, uiVars, winVars>>

\* The export resize of a composed image of arg.W x arg.H pixels, by both
\* implementations.
CallResize ==
    /\ pc = "call" /\ fn = "resize"
    /\ res' = [core |-> MaybeResize(arg.W, arg.H, arg.mode, arg.v),
               ui   |-> InlineResize(arg.W, arg.H, arg.mode, arg.v)]
    /\ pc' = "ret"
    /\ UNCHANGED <<fn, arg>>
    /\ UNCHANGED <<batchVars, uiVars, winVars>>

Next ==
    \/ CallAnchor \/ CallScale \/ CallRatio \/ CallNaming \/ CallResolve
    \/ CallWmScale \/ CallResize

Spec == Init /\ [][Next]_vars

(***************************************************************************)
(* Batch export.  Both implementations loop over the paths and wrap each   *)
(* image in try/except.  The environment decides, per image, whether the   *)
(* source can be read and whether its output can be written (outcomes),    *)
(* and what the output directory is: "ok" (exists, writable), "missing"    *)
(* (can be created), "unwritable" (exists, no file can be created in it)   *)
(* or "uncreatable" (does not exist as a directory and cannot be made).    *)
(* files maps each name in the output directory to its content: the index  *)
(* of the batch image written to it (0 for a file that was there before)   *)
(* and whether it was written completely.                                  *)
(***************************************************************************)
MaxBatch == 3
BatchPaths == { <<"d", "/", "P", "h", "o", "t", "o", ".", "J", "P", "G">>,
                <<"e", "/", "P", "h", "o", "t", "o", ".", "p", "n", "g">>,
                <<"d", "/", "I", "m", "g", ".", "p", "n", "g">> }
Outcomes == {"good", "unreadable", "writefail"}
DirStates == {"ok", "missing", "unwritable", "uncreatable"}
BatchSettings == [name_rule |-> "keep", prefix |-> << >>, suffix |-> << >>,
                  fmt |-> <<"p", "n", "g">>]
OldFile == [by |-> 0, whole |-> TRUE]
ExistingChoices ==
    { {},
      { <<"P", "h", "o", "t", "o", ".", "p", "n", "g">> },
      { <<"P", "h", "o", "t", "o", ".", "p", "n", "g">>,
        <<"P", "h", "o", "t", "o", "_", "1", ".", "p", "n", "g">>,
        <<"P", "h", "o", "t", "o", "(", "1", ")", ".", "p", "n", "g">> } }

BatchInit ==
    /\ CalcIdle /\ UiIdle /\ WinIdle
    /\ impl \in {"core", "ui"}
    /\ \E len \in 0..MaxBatch :
          /\ image_paths \in [1..len -> BatchPaths]
          /\ outcomes \in [1..len -> Outcomes]
    /\ out_dir \in DirStates
    /\ \E names \in ExistingChoices :
          files = [nm \in (IF out_dir \in {"ok", "unwritable"} THEN names ELSE {}) |-> OldFile]
    /\ n = 0 /\ ok = 0 /\ fail = 0
    /\ bpc = "start"
    /\ saved = << >>

\* img.save(target): the file is opened for writing, whatever it held before.
SaveFile(fs, target, by, whole) ==
    [nm \in DOMAIN fs \cup {target} |->
        IF nm = target THEN [by |-> by, whole |-> whole] ELSE fs[nm]]

\* export_batch line 123: os.makedirs(settings.output_dir, exist_ok=True),
\* before the loop and outside its try: a failure propagates to the caller.
CoreMakedirs ==
    /\ bpc = "start" /\ impl = "core"
    /\ bpc' = IF out_dir = "uncreatable" THEN "raised" ELSE "loop"
    /\ out_dir' = IF out_dir = "missing" THEN "ok" ELSE out_dir
    /\ UNCHANGED <<impl, image_paths, outcomes, files, n, ok, fail, saved>>
    /\ UNCHANGED <<calcVars, uiVars, winVars>>

\* One iteration of export_batch's loop, lines 125-155: whatever raises inside
\* the try is counted as a failure.
CoreStep ==
    /\ bpc = "loop" /\ impl = "core" /\ n < Len(image_paths)
    /\ LET i      == n + 1
           named  == ApplyNaming(image_paths[i], BatchSettings, OutExt(BatchSettings.fmt))
           target == SafeFilename(named, DOMAIN files)
       IN  IF outcomes[i] = "unreadable"             \* Image.open raises
           THEN /\ fail' = fail + 1
                /\ saved' = Append(saved, << >>)
                /\ UNCHANGED <<ok, files>>
           ELSE IF out_dir # "ok"                    \* save cannot open target
           THEN /\ fail' = fail + 1
                /\ saved' = Append(saved, << >>)
                /\ UNCHANGED <<ok, files>>
           ELSE IF outcomes[i] = "writefail"         \* save raises while writing
           THEN /\ fail' = fail + 1
                /\ saved' = Append(saved, << >>)
                /\ \E left \in BOOLEAN :
                      files' = IF left THEN SaveFile(files, target, i, FALSE) ELSE files
                /\ UNCHANGED ok
           ELSE /\ files' = SaveFile(files, target, i, TRUE)
                /\ ok' = ok + 1
                /\ saved' = Append(saved, target)
                /\ UNCHANGED fail
    /\ n' = n + 1
    /\ UNCHANGED <<impl, image_paths, outcomes, out_dir, bpc>>
    /\ UNCHANGED <<calcVars, uiVars, winVars>>

\* export_batch line 156: return ok, fail.
CoreReturn ==
    /\ bpc = "loop" /\ impl = "core" /\ n = Len(image_paths)
    /\ bpc' = "done"
    /\ UNCHANGED <<impl, image_paths, outcomes, out_dir, files, n, ok, fail, saved>>
    /\ UNCHANGED <<calcVars, uiVars, winVars>>

\* _export_preview_like_batch line 953: ok = fail = 0; nothing precedes the loop.
UiStart ==
    /\ bpc = "start" /\ impl = "ui"
    /\ bpc' = "loop"
    /\ UNCHANGED <<impl, image_paths, outcomes, out_dir, files, n, ok, fail, saved>>
    /\ UNCHANGED <<calcVars, uiVars, winVars>>

\* The mutant of UiStep used to test the batch claims: the first failure
\* ends the loop.
UiStepAborting ==
    /\ bpc = "loop" /\ impl = "ui" /\ n < Len(image_paths)
    /\ IF outcomes[n + 1] = "good" /\ out_dir \in {"ok", "missing"}
       THEN /\ files' = SaveFile(files, BuildOutputPath(image_paths[n + 1], BatchSettings,
                                                        DOMAIN files), n + 1, TRUE)
            /\ ok' = ok + 1
            /\ saved' = Append(saved, BuildOutputPath(image_paths[n + 1], BatchSettings,
                                                      DOMAIN files))
            /\ out_dir' = "ok"
            /\ n' = n + 1
            /\ UNCHANGED <<fail, bpc>>
       ELSE /\ fail' = fail + 1
            /\ bpc' = "done"
            /\ UNCHANGED <<files, ok, saved, out_dir, n>>
    /\ UNCHANGED <<impl, image_paths, outcomes>>
    /\ UNCHANGED <<calcVars, uiVars, winVars>>

\* One iteration of _export_preview_like_batch's loop, lines 954-987:
\* _compose_preview_like, _build_output_path, _ensure_parent_dir and save, all
\* inside the try; whatever raises is counted as a failure.
UiStep ==
    /\ bpc = "loop" /\ impl = "ui" /\ n < Len(image_paths)
    /\ LET i        == n + 1
           out_path == BuildOutputPath(image_paths[i], BatchSettings, DOMAIN files)
       IN  IF outcomes[i] = "unreadable"             \* Image.open raises
           THEN /\ fail' = fail + 1
                /\ saved' = Append(saved, << >>)
                /\ UNCHANGED <<ok, files, out_dir>>
           ELSE IF out_dir = "uncreatable"           \* os.makedirs raises
           THEN /\ fail' = fail + 1
                /\ saved' = Append(saved, << >>)
                /\ UNCHANGED <<ok, files, out_dir>>
           ELSE IF out_dir = "unwritable"            \* save cannot open out_path
           THEN /\ fail' = fail + 1
                /\ saved' = Append(saved, << >>)
                /\ UNCHANGED <<ok, files, out_dir>>
           ELSE IF outcomes[i] = "writefail"         \* save raises while writing
           THEN /\ fail' = fail + 1
                /\ saved' = Append(saved, << >>)
                /\ out_dir' = "ok"
                /\ \E left \in BOOLEAN :
                      files' = IF left THEN SaveFile(files, out_path, i, FALSE) ELSE files
                /\ UNCHANGED ok
           ELSE /\ out_dir' = "ok"
                /\ files' = SaveFile(files, out_path, i, TRUE)
                /\ ok' = ok + 1
                /\ saved' = Append(saved, out_path)
                /\ UNCHANGED fail
    /\ n' = n + 1
    /\ UNCHANGED <<impl, image_paths, outcomes, bpc>>
    /\ UNCHANGED <<calcVars, uiVars, winVars>>

\* _export_preview_like_batch line 988: return ok, fail.
UiReturn ==
    /\ bpc = "loop" /\ impl = "ui" /\ n = Len(image_paths)
    /\ bpc' = "done"
    /\ UNCHANGED <<impl, image_paths, outcomes, out_dir, files, n, ok, fail, saved>>
    /\ UNCHANGED <<calcVars, uiVars, winVars>>

BatchNext == CoreMakedirs \/ CoreStep \/ CoreReturn \/ UiStart \/ UiStep \/ UiReturn

BatchSpec == BatchInit /\ [][BatchNext]_vars

(***************************************************************************)
(* The main window.  Every handler runs to its end on the GUI thread; the  *)
(* callbacks on_anchor_change hands to QTimer.singleShot(0, ...) wait in    *)
(* timers until the event loop runs them, and events that are already      *)
(* queued may be handled before them.  preview holds the fields of the     *)
(* PreviewLabel and, in composed, the composite it shows.                  *)
(***************************************************************************)
MaxPending == 1
DefaultText == <<"D", "E", "M", "O">>    \* stands for the four characters of the default text
UiTexts == { << >>, <<"a">>, <<"a", "b", " ">> }
UiOpacities == {50, 100}
UiAnchors == {"bottom-right", "center"}
UiScales == {20, 25}
UiRotations == {0, 90}
UiDrag == <<5, 2>>
UiFontSizes == {32, 40}
UiSources == { <<1800, 1400>>, <<640, 480>> }
UiWatermarks == { <<40, 20>> }

\* The composite is redrawn from the fields: the end of every setter.
Recomposed(pv) == [pv EXCEPT !.composed = UpdateComposite(pv)]

\* PreviewLabel.load_image of a readable file of size src: the base is set and
\* the composite redrawn; when the resize raises, the warning is shown and the
\* label keeps what it had.
LoadedImage(pv, src) ==
    LET img == PreviewCanvas(src[1], src[2])
    IN  IF img = NoImage THEN pv
        ELSE Recomposed([pv EXCEPT !.pil_base = img])

\* PreviewLabel.set_watermark(text, opacity, font_size=..., anchor=...).
SetWatermarkAll(pv, text, opacity, font_size, anchor) ==
    Recomposed([pv EXCEPT
        !.watermark_text = text,
        !.opacity = Max2(0, Min2(100, opacity)),
        !.font_size = IF font_size = << >> THEN @ ELSE Max2(6, Min2(400, font_size[1])),
        !.anchor = IF anchor = << >> THEN @ ELSE anchor[1]])

\* PreviewLabel.set_watermark(text, opacity) without an anchor; the opacity
\* is the slider's percentage.
SetWatermark(pv, text, opacity) ==
    Recomposed([pv EXCEPT !.watermark_text = text,
                          !.opacity = Max2(0, Min2(100, opacity))])

\* PreviewLabel.set_watermark(text, opacity, anchor=anchor).
SetWatermarkAnchor(pv, text, opacity, anchor) ==
    Recomposed([pv EXCEPT !.watermark_text = text,
                          !.opacity = Max2(0, Min2(100, opacity)),
                          !.anchor = anchor])

\* set_watermark_mode switching on any name: used to test the mode claims.
SetWatermarkModeUnchecked(pv, mode) == Recomposed([pv EXCEPT !.wm_mode = mode])

\* PreviewLabel.set_watermark_mode(mode): a mode that is neither 'text' nor
\* 'image' is ignored, without a redraw.
SetWatermarkMode(pv, mode) ==
    IF mode \in {"text", "image"} THEN Recomposed([pv EXCEPT !.wm_mode = mode]) ELSE pv

\* MainWindow.__init__ on a first start: the widgets' initial values and the
\* PreviewLabel's defaults; no image is loaded.
UiInit ==
    /\ CalcIdle /\ BatchIdle /\ WinIdle
    /\ text_edit = << >>
    /\ opacity_slider = 50
    /\ anchor_combo = "bottom-right"
    /\ preview = [watermark_text |-> DefaultText, opacity |-> 50, font_size |-> 32,
                  anchor |-> "bottom-right", offset |-> <<-16, -16>>,
                  wm_mode |-> "text", wm_image_pil |-> NoImage, wm_scale |-> 20,
                  rotation |-> 0, pil_base |-> NoImage,
                  composed |-> NothingDrawn(NoImage)]
    /\ timers = << >>
    /\ selected = NoImage
    /\ exported = [none |-> TRUE]
    /\ upc = "ready"
    /\ wm_scale_spin = 20
    /\ wm_type_combo = "text"
    /\ dragging = FALSE
    /\ drag_start = <<0, 0>>
    /\ gesture = [event |-> "none"]

\* on_selection_change: the selected image is loaded into the preview.
OnSelectionChange ==
    /\ upc = "ready"
    /\ \E src \in UiSources :
          /\ src # selected
          /\ selected' = src
          /\ preview' = LoadedImage(preview, src)
    /\ exported' = [none |-> TRUE]
    /\ UNCHANGED <<text_edit, opacity_slider, anchor_combo, timers, upc>>
    /\ UNCHANGED <<wm_scale_spin, wm_type_combo, dragging, drag_start, gesture>>
    /\ UNCHANGED <<calcVars, batchVars, winVars>>

\* on_text_change; the text edit is enabled in text mode only.
OnTextChange ==
    /\ upc = "ready" /\ preview.wm_mode = "text"
    /\ \E raw \in UiTexts :
          /\ raw # text_edit
          /\ text_edit' = raw
          /\ preview' = SetWatermark(preview, Strip(raw), opacity_slider)
    /\ exported' = [none |-> TRUE]
    /\ UNCHANGED <<opacity_slider, anchor_combo, timers, selected, upc>>
    /\ UNCHANGED <<wm_scale_spin, wm_type_combo, dragging, drag_start, gesture>>
    /\ UNCHANGED <<calcVars, batchVars, winVars>>

\* on_opacity_change
OnOpacityChange ==
    /\ upc = "ready"
    /\ \E v \in UiOpacities :
          /\ v # opacity_slider
          /\ opacity_slider' = v
          /\ preview' = SetWatermark(preview, Strip(text_edit), v)
    /\ exported' = [none |-> TRUE]
    /\ UNCHANGED <<text_edit, anchor_combo, timers, selected, upc>>
    /\ UNCHANGED <<wm_scale_spin, wm_type_combo, dragging, drag_start, gesture>>
    /\ UNCHANGED <<calcVars, batchVars, winVars>>

\* on_font_size_change: set_watermark with the text of the edit box, the
\* slider's opacity and the new value of font_size_spin (range 6..400, enabled
\* in text mode; it has the label's font size, which only it sets here).
OnFontSizeChange ==
    /\ upc = "ready" /\ preview.wm_mode = "text"
    /\ \E v \in UiFontSizes :
          /\ v # preview.font_size
          /\ preview' = SetWatermarkAll(preview, Strip(text_edit), opacity_slider, <<v>>, << >>)
    /\ exported' = [none |-> TRUE]
    /\ UNCHANGED <<text_edit, opacity_slider, anchor_combo, timers, selected, upc>>
    /\ UNCHANGED <<wm_scale_spin, wm_type_combo, dragging, drag_start, gesture>>
    /\ UNCHANGED <<calcVars, batchVars, winVars>>

\* on_pick_color (the button is enabled in text mode): when the dialog gives a
\* valid colour, set_watermark with the text of the edit box, the slider's
\* opacity and the colour; a cancelled dialog changes nothing.  The colour
\* moves no pixel position and is no part of the state kept here.
OnPickColor ==
    /\ upc = "ready" /\ preview.wm_mode = "text"
    /\ \E valid \in BOOLEAN :
          preview' = IF valid THEN SetWatermark(preview, Strip(text_edit), opacity_slider)
                     ELSE preview
    /\ exported' = [none |-> TRUE]
    /\ UNCHANGED <<text_edit, opacity_slider, anchor_combo, timers, selected, upc>>
    /\ UNCHANGED <<wm_scale_spin, wm_type_combo, dragging, drag_start, gesture>>
    /\ UNCHANGED <<calcVars, batchVars, winVars>>

\* on_anchor_change: the offset is reset at once; set_watermark with the new
\* anchor, and with the text and the opacity read now, is left to a timer.
OnAnchorChange ==
    /\ upc \in {"ready", "drag"} /\ Len(timers) < MaxPending
    /\ \E a \in UiAnchors :
          /\ a # anchor_combo
          /\ anchor_combo' = a
          /\ timers' = Append(timers, [a |-> a, t |-> Strip(text_edit), v |-> opacity_slider])
    /\ preview' = [preview EXCEPT !.offset = <<-16, -16>>]
    /\ gesture' = IF upc # "drag" THEN gesture
                  ELSE [gesture EXCEPT !.event = "anchor", !.reset = TRUE,
                                       !.press_pos = <<0, 0>>,
                                       !.press_offset = <<-16, -16>>]
    /\ exported' = [none |-> TRUE]
    /\ UNCHANGED <<text_edit, opacity_slider, selected, upc>>
    /\ UNCHANGED <<wm_scale_spin, wm_type_combo, dragging, drag_start>>
    /\ UNCHANGED <<calcVars, batchVars, winVars>>

\* The event loop runs the oldest pending callback of on_anchor_change.
TimerFire ==
    /\ upc \in {"ready", "drag"} /\ timers # << >>
    /\ preview' = SetWatermarkAnchor(preview, Head(timers).t, Head(timers).v, Head(timers).a)
    /\ timers' = Tail(timers)
    /\ exported' = [none |-> TRUE]
    /\ UNCHANGED <<text_edit, opacity_slider, anchor_combo, selected, upc>>
    /\ UNCHANGED <<wm_scale_spin, wm_type_combo, dragging, drag_start, gesture>>
    /\ UNCHANGED <<calcVars, batchVars, winVars>>

\* The type combo is given its other item ('text' stands for the item of the
\* text mode, 'image' for the other): on_wm_type_change calls
\* set_watermark_mode with the mode of the item.
OnWmTypeChange ==
    /\ upc \in {"ready", "panel"}
    /\ wm_type_combo' = IF wm_type_combo = "text" THEN "image" ELSE "text"
    /\ preview' = SetWatermarkMode(preview, wm_type_combo')
    /\ exported' = [none |-> TRUE]
    /\ UNCHANGED <<text_edit, opacity_slider, anchor_combo, timers, selected, upc>>
    /\ UNCHANGED <<wm_scale_spin, dragging, drag_start, gesture>>
    /\ UNCHANGED <<calcVars, batchVars, winVars>>

\* on_pick_wm_image, run by a click on wm_img_btn, which
\* _toggle_watermark_controls enables only while the type combo shows the
\* image item.  A cancelled dialog gives no path and the handler returns;
\* otherwise set_image_watermark(path): a file that cannot be opened leaves
\* no watermark image, and the composite is redrawn.
OnPickWmImage ==
    /\ upc \in {"ready", "panel"} /\ wm_type_combo = "image"
    /\ \E cancelled \in BOOLEAN :
          IF cancelled
          THEN UNCHANGED <<preview, exported>>
          ELSE /\ \E wm \in UiWatermarks \cup {NoImage} :
                     preview' = Recomposed([preview EXCEPT !.wm_image_pil = wm])
               /\ exported' = [none |-> TRUE]
    /\ UNCHANGED <<text_edit, opacity_slider, anchor_combo, timers, selected, upc>>
    /\ UNCHANGED <<wm_scale_spin, wm_type_combo, dragging, drag_start, gesture>>
    /\ UNCHANGED <<calcVars, batchVars, winVars>>

\* The scale spin box, enabled in image mode, is given another value:
\* on_wm_scale_change calls set_image_watermark(scale=v).
OnWmScaleChange ==
    /\ upc \in {"ready", "panel"} /\ preview.wm_mode = "image"
    /\ \E v \in UiScales :
          /\ v # wm_scale_spin
          /\ wm_scale_spin' = v
          /\ preview' = Recomposed([preview EXCEPT !.wm_scale = Max2(1, Min2(400, v))])
    /\ exported' = [none |-> TRUE]
    /\ UNCHANGED <<text_edit, opacity_slider, anchor_combo, timers, selected, upc>>
    /\ UNCHANGED <<wm_type_combo, dragging, drag_start, gesture>>
    /\ UNCHANGED <<calcVars, batchVars, winVars>>

\* on_rotation_change: set_rotation(v), which redraws when the angle changes.
OnRotationChange ==
    /\ upc \in {"ready", "panel"}
    /\ \E v \in UiRotations :
          /\ v # preview.rotation
          /\ preview' = Recomposed([preview EXCEPT !.rotation = Max2(-180, Min2(180, v))])
    /\ exported' = [none |-> TRUE]
    /\ UNCHANGED <<text_edit, opacity_slider, anchor_combo, timers, selected, upc>>
    /\ UNCHANGED <<wm_scale_spin, wm_type_combo, dragging, drag_start, gesture>>
    /\ UNCHANGED <<calcVars, batchVars, winVars>>

\* Mouse events on the preview label.  Where the drag alone is followed
\* (upc = "drag") gesture keeps the last event and, of the drag under way,
\* where and at which offset it began, how many move events it had, whether
\* the left button is held (left_down) and was pressed on a loaded image
\* (open), and whether an anchor change or a template has assigned the offset
\* since the press (reset: where the drag began is then no longer kept);
\* there the pointer takes any of Pointers, a drag
\* has at most MaxMoves moves and a move keeps the offset within MaxDrag of
\* the default.  In the
\* window (upc = "ready") the pointer is at the origin or at UiDrag and the
\* offset is the default or UiDrag beside it.
MaxDrag == 12
MaxMoves == 3
Pointers == { <<0, 0>>, <<5, 2>>, <<3, 7>> }
Buttons == {"left", "right"}
MousePositions == IF upc = "drag" THEN Pointers ELSE { <<0, 0>>, UiDrag }

\* The left button is held.  In the window a press that starts no drag and
\* its release change nothing, so the drag flag stands for the button.
LeftDown == IF upc = "drag" THEN gesture.left_down ELSE dragging

\* The offsets a drag may reach.
InDragRange(off) ==
    IF upc = "drag"
    THEN Abs(off[1] + 16) <= MaxDrag /\ Abs(off[2] + 16) <= MaxDrag
    ELSE off \in { <<-16, -16>>, <<-16 + UiDrag[1], -16 + UiDrag[2]>> }

\* mouseMoveEvent keeping the start of the drag: used to test the drag claim.
MouseMoveEventStale(pv, start, pos) ==
    [preview    |-> Recomposed([pv EXCEPT !.offset = <<pv.offset[1] + pos[1] - start[1],
                                                        pv.offset[2] + pos[2] - start[2]>>]),
     drag_start |-> start]

\* mouseMoveEvent while dragging, lines 286-289: delta = e.pos() -
\* _drag_start; _drag_start = e.pos(); offset += delta; update_composite().
MouseMoveEvent(pv, start, pos) ==
    [preview    |-> Recomposed([pv EXCEPT !.offset = <<pv.offset[1] + pos[1] - start[1],
                                                        pv.offset[2] + pos[2] - start[2]>>]),
     drag_start |-> pos]

\* mousePressEvent: a left press on a loaded image starts a drag; any other
\* press goes to QLabel.  The left button is pressed while it is up.
MousePress ==
    /\ upc \in {"ready", "drag"}
    /\ \E button \in Buttons, pos \in MousePositions :
          /\ button = "left" => ~LeftDown
          /\ IF button = "left" /\ preview.pil_base # NoImage
             THEN /\ dragging' = TRUE
                  /\ drag_start' = pos
                  /\ gesture' = IF upc # "drag" THEN gesture
                                ELSE [event |-> "press", button |-> button, pos |-> pos,
                                      press_pos |-> pos, press_offset |-> preview.offset,
                                      moves |-> 0, left_down |-> TRUE, open |-> TRUE,
                                      reset |-> FALSE]
             ELSE /\ UNCHANGED <<dragging, drag_start>>
                  /\ gesture' = IF upc # "drag" THEN gesture
                                ELSE [gesture EXCEPT !.event = "press", !.button = button,
                                                     !.pos = pos,
                                                     !.left_down = @ \/ button = "left"]
    /\ exported' = [none |-> TRUE]
    /\ UNCHANGED <<text_edit, opacity_slider, anchor_combo, preview, timers, selected,
                   upc, wm_scale_spin, wm_type_combo>>
    /\ UNCHANGED <<calcVars, batchVars, winVars>>

\* mouseMoveEvent: while dragging the offset moves by the distance from the
\* last position and the label is redrawn; else the event goes to QLabel.
MouseMove ==
    /\ upc \in {"ready", "drag"}
    /\ upc = "drag" => gesture.moves < MaxMoves
    /\ \E pos \in MousePositions :
          /\ IF dragging
             THEN \E moved \in { MouseMoveEvent(preview, drag_start, pos) } :
                     /\ InDragRange(moved.preview.offset)
                     /\ preview' = moved.preview
                     /\ drag_start' = moved.drag_start
             ELSE UNCHANGED <<preview, drag_start>>
          /\ gesture' = IF upc # "drag" THEN gesture
                        ELSE [gesture EXCEPT !.event = "move", !.pos = pos, !.moves = @ + 1]
    /\ exported' = [none |-> TRUE]
    /\ UNCHANGED <<text_edit, opacity_slider, anchor_combo, timers, selected,
                   upc, wm_scale_spin, wm_type_combo, dragging>>
    /\ UNCHANGED <<calcVars, batchVars, winVars>>

\* mouseReleaseEvent: the release of the left button ends a drag; any other
\* release goes to QLabel.  The left button is released while it is down.
MouseRelease ==
    /\ upc \in {"ready", "drag"}
    /\ \E button \in Buttons :
          /\ button = "left" => LeftDown
          /\ dragging' = IF button = "left" /\ dragging THEN FALSE ELSE dragging
          /\ gesture' = IF upc # "drag" THEN gesture
                        ELSE [gesture EXCEPT
                                 !.event = "release", !.button = button, !.moves = 0,
                                 !.left_down = @ /\ button # "left",
                                 !.open = @ /\ button # "left"]
    /\ exported' = [none |-> TRUE]
    /\ UNCHANGED <<text_edit, opacity_slider, anchor_combo, preview, timers, selected,
                   upc, wm_scale_spin, wm_type_combo, drag_start>>
    /\ UNCHANGED <<calcVars, batchVars, winVars>>

\* on_export for the selected image, an output directory being given: it
\* returns early without a text in text mode or without a watermark image in
\* image mode; else _export_preview_like_batch composes the image with the
\* text of the text edit.  exported keeps what was composed beside what
\* update_composite composes in the same state.
OnExport ==
    /\ upc = "ready" /\ selected # NoImage
    /\ IF preview.wm_mode = "text" THEN Strip(text_edit) # << >>
       ELSE preview.wm_image_pil # NoImage
    /\ exported' = [export  |-> ComposePreviewLike(preview, selected, Strip(text_edit)),
                    preview |-> UpdateComposite(preview),
                    shown   |-> preview.composed]
    /\ UNCHANGED <<text_edit, opacity_slider, anchor_combo, preview, timers, selected, upc>>
    /\ UNCHANGED <<wm_scale_spin, wm_type_combo, dragging, drag_start, gesture>>
    /\ UNCHANGED <<calcVars, batchVars, winVars>>

UiNext ==
    \/ OnSelectionChange \/ OnTextChange \/ OnOpacityChange
    \/ OnFontSizeChange \/ OnPickColor \/ OnAnchorChange
    \/ TimerFire \/ OnWmTypeChange \/ OnPickWmImage \/ OnWmScaleChange
    \/ OnRotationChange \/ OnExport
    \/ MousePress \/ MouseMove \/ MouseRelease

UiSpec == UiInit /\ [][UiNext]_vars

(***************************************************************************)
(* The PreviewLabel under any sequence of calls of its setters, of wheel   *)
(* events and of template applications.  The arguments are raw: no caller  *)
(* has put them in range.  An optional argument is << >> (None) or <<v>>.  *)
(***************************************************************************)
MaxWheel == 5
RawOpacities == {-10, 250}
RawFontSizes == {0, 1000}
RawScales == {0, 999}
RawAngles == {-500, 270}
RawModes == {"text", "image", "Image", ""}
WheelSteps == {1, 5, 10}
LabelText == <<"a">>
LabelSource == <<1800, 1400>>
LabelWatermark == <<40, 20>>

\* PreviewLabel.set_image_watermark(path, scale): path is << >> (None), <<wm>>
\* for a file that opens as wm, or <<NoImage>> for one that does not.
SetImageWatermark(pv, path, scale) ==
    Recomposed([pv EXCEPT
        !.wm_image_pil = IF path = << >> THEN @ ELSE path[1],
        !.wm_scale = IF scale = << >> THEN @ ELSE Max2(1, Min2(400, scale[1]))])

\* set_rotation without the clamp: used to test the range claim.
SetRotationUnclamped(pv, angle) ==
    IF angle # pv.rotation THEN Recomposed([pv EXCEPT !.rotation = angle]) ELSE pv

\* PreviewLabel.set_rotation(angle): the angle is clamped; the label is
\* redrawn when it changed.
SetRotation(pv, angle) ==
    LET ang == Max2(-180, Min2(180, angle))
    IN  IF ang # pv.rotation THEN Recomposed([pv EXCEPT !.rotation = ang]) ELSE pv

\* PreviewLabel.wheelEvent turned by change (the step, signed): in image mode
\* with a watermark image the scale moves inside [1, 400]; else nothing.
WheelTurned(pv, change) ==
    IF pv.wm_mode = "image" /\ pv.wm_image_pil # NoImage
    THEN LET new_scale == Max2(1, Min2(400, pv.wm_scale + change))
         IN  IF new_scale # pv.wm_scale
             THEN Recomposed([pv EXCEPT !.wm_scale = new_scale])
             ELSE pv
    ELSE pv

\* QSpinBox.setValue, QSlider.setValue: the value is bound to the range.
BoundValue(lo, hi, v) == Max2(lo, Min2(hi, v))

\* The templates that may be on disk: settings as written by
\* _collect_current_settings, and settings edited by hand.  broken marks an
\* offset that is no pair of numbers.
Templates ==
    { [mode |-> "image", text |-> <<" ", "a">>, opacity |-> 30, font_size |-> 6,
       anchor |-> "center", offset |-> <<3, 4>>, rotation |-> 90,
       wm_image |-> <<LabelWatermark>>, wm_scale |-> 400, broken |-> FALSE],
      [mode |-> "Image", text |-> <<"a">>, opacity |-> 250, font_size |-> 1000,
       anchor |-> "nowhere", offset |-> <<3, 4>>, rotation |-> 270,
       wm_image |-> <<NoImage>>, wm_scale |-> 999, broken |-> FALSE],
      [mode |-> "text", text |-> <<"a">>, opacity |-> -10, font_size |-> 0,
       anchor |-> "center", offset |-> <<3, 4>>, rotation |-> -500,
       wm_image |-> << >>, wm_scale |-> 0, broken |-> TRUE] }

\* Templates as _collect_current_settings writes them: one saved in text
\* mode after the scale was set to 50, one saved in image mode.
SavedTemplates ==
    { [mode |-> "text", text |-> <<"a">>, opacity |-> 50, font_size |-> 32,
       anchor |-> "bottom-right", offset |-> <<-16, -16>>, rotation |-> 0,
       wm_image |-> << >>, wm_scale |-> 50, broken |-> FALSE],
      [mode |-> "image", text |-> <<"a">>, opacity |-> 50, font_size |-> 32,
       anchor |-> "bottom-right", offset |-> <<-16, -16>>, rotation |-> 0,
       wm_image |-> <<LabelWatermark>>, wm_scale |-> 400, broken |-> FALSE] }

LabelInit ==
    /\ CalcIdle /\ BatchIdle /\ WinIdle
    /\ text_edit = << >>
    /\ opacity_slider = 50
    /\ anchor_combo = "bottom-right"
    /\ preview = [watermark_text |-> DefaultText, opacity |-> 50, font_size |-> 32,
                  anchor |-> "bottom-right", offset |-> <<-16, -16>>,
                  wm_mode |-> "text", wm_image_pil |-> NoImage, wm_scale |-> 20,
                  rotation |-> 0, pil_base |-> NoImage,
                  composed |-> NothingDrawn(NoImage)]
    /\ timers = << >>
    /\ selected = NoImage
    /\ exported = [none |-> TRUE]
    /\ upc = "label"
    /\ wm_scale_spin = 20
    /\ wm_type_combo = "text"
    /\ dragging = FALSE
    /\ drag_start = <<0, 0>>
    /\ gesture = [event |-> "none"]

\* load_image: the source image is loaded into the label.
LoadImage ==
    /\ upc \in {"label", "panel", "drag"} /\ selected # LabelSource
    /\ selected' = LabelSource
    /\ preview' = LoadedImage(preview, LabelSource)
    /\ UNCHANGED <<text_edit, opacity_slider, anchor_combo, timers, exported, upc>>
    /\ UNCHANGED <<wm_scale_spin, wm_type_combo, dragging, drag_start, gesture>>
    /\ UNCHANGED <<calcVars, batchVars, winVars>>

\* set_watermark with any opacity and, optionally, any font size.
CallSetWatermark ==
    /\ upc = "label"
    /\ \E o \in RawOpacities, f \in {<< >>} \cup { <<v>> : v \in RawFontSizes } :
          preview' = SetWatermarkAll(preview, LabelText, o, f, << >>)
    /\ UNCHANGED <<text_edit, opacity_slider, anchor_combo, timers, selected, exported, upc>>
    /\ UNCHANGED <<wm_scale_spin, wm_type_combo, dragging, drag_start, gesture>>
    /\ UNCHANGED <<calcVars, batchVars, winVars>>

\* set_watermark_mode with any name.
CallSetWatermarkMode ==
    /\ upc = "label"
    /\ \E mode \in RawModes : preview' = SetWatermarkMode(preview, mode)
    /\ UNCHANGED <<text_edit, opacity_slider, anchor_combo, timers, selected, exported, upc>>
    /\ UNCHANGED <<wm_scale_spin, wm_type_combo, dragging, drag_start, gesture>>
    /\ UNCHANGED <<calcVars, batchVars, winVars>>

\* set_image_watermark with a path, a scale, both or none.
CallSetImageWatermark ==
    /\ upc = "label"
    /\ \E path \in {<< >>, <<LabelWatermark>>, <<NoImage>>},
          scale \in {<< >>} \cup { <<v>> : v \in RawScales } :
          preview' = SetImageWatermark(preview, path, scale)
    /\ UNCHANGED <<text_edit, opacity_slider, anchor_combo, timers, selected, exported, upc>>
    /\ UNCHANGED <<wm_scale_spin, wm_type_combo, dragging, drag_start, gesture>>
    /\ UNCHANGED <<calcVars, batchVars, winVars>>

\* set_rotation with any angle.
CallSetRotation ==
    /\ upc = "label"
    /\ \E angle \in RawAngles : preview' = SetRotation(preview, angle)
    /\ UNCHANGED <<text_edit, opacity_slider, anchor_combo, timers, selected, exported, upc>>
    /\ UNCHANGED <<wm_scale_spin, wm_type_combo, dragging, drag_start, gesture>>
    /\ UNCHANGED <<calcVars, batchVars, winVars>>

\* wheelEvent, up or down (a delta of 0 returns at once), with Ctrl (1),
\* with Shift and no Ctrl (10) or with neither (5); the wheel is turned
\* while the scale is within MaxWheel of one of its limits.  A changed scale
\* is emitted with scaleChanged, which is connected to the spin box's setValue.
WheelEvent ==
    /\ upc \in {"label", "panel"}
    /\ preview.wm_scale - 1 <= MaxWheel \/ 400 - preview.wm_scale <= MaxWheel
    /\ \E step \in WheelSteps, up \in BOOLEAN :
          preview' = WheelTurned(preview, IF up THEN step ELSE -step)
    /\ wm_scale_spin' = IF preview'.wm_scale # preview.wm_scale
                        THEN preview'.wm_scale ELSE wm_scale_spin
    /\ UNCHANGED <<text_edit, opacity_slider, anchor_combo, timers, selected, exported, upc>>
    /\ UNCHANGED <<wm_type_combo, dragging, drag_start, gesture>>
    /\ UNCHANGED <<calcVars, batchVars, winVars>>

\* The templates applied where the drag is followed: one as
\* _collect_current_settings writes it after a drag and an anchor change, and
\* one whose offset is no pair of numbers.
DragTemplates ==
    { [mode |-> "text", text |-> << >>, opacity |-> 50, font_size |-> 32,
       anchor |-> "center", offset |-> <<-11, -14>>, rotation |-> 0,
       wm_image |-> << >>, wm_scale |-> 20, broken |-> b] : b \in BOOLEAN }

\* _apply_settings(s), lines 767-825.  The type combo is given the item of
\* the mode, and on_wm_type_change runs when that changes its text; the other
\* widgets are set with their signals blocked, bind the values to their
\* ranges, and the anchor combo keeps its item when the name is none of its
\* items.  Then the offset is assigned and the setters of the label are
\* called.  Whatever raises ends the application where it is: with a broken
\* offset, before the label is given anything but the mode.
ApplySettings ==
    /\ upc \in {"label", "panel", "drag"}
    /\ \E s \in (IF upc = "panel" THEN SavedTemplates
                 ELSE IF upc = "drag" THEN DragTemplates ELSE Templates) :
          LET mode   == IF s.mode = "text" THEN "text" ELSE "image"
              anchor == IF s.anchor \in AnchorNames THEN s.anchor ELSE anchor_combo
              slider == BoundValue(0, 100, s.opacity)
          IN  /\ wm_type_combo' = mode
              /\ text_edit' = s.text
              /\ opacity_slider' = slider
              /\ anchor_combo' = anchor
              /\ \E switched \in { IF mode # wm_type_combo
                                   THEN SetWatermarkMode(preview, mode) ELSE preview } :
                 \E watermarked \in
                       { SetWatermarkAll([switched EXCEPT !.offset = s.offset],
                                         Strip(s.text), slider,
                                         <<BoundValue(6, 400, s.font_size)>>, <<anchor>>) } :
                 \E pictured \in { IF s.wm_image # << >>
                                   THEN SetImageWatermark(watermarked, s.wm_image, << >>)
                                   ELSE watermarked } :
                 \E scaled \in { IF s.mode = "image"
                                 THEN SetImageWatermark(pictured, << >>,
                                          <<BoundValue(1, 400, s.wm_scale)>>)
                                 ELSE pictured } :
                 \E turned \in { SetRotation(scaled, BoundValue(-180, 180, s.rotation)) } :
                    preview' = IF s.broken THEN switched ELSE Recomposed(turned)
              /\ wm_scale_spin' = IF s.broken THEN wm_scale_spin
                                  ELSE BoundValue(1, 400, s.wm_scale)
              /\ gesture' = IF upc # "drag" THEN gesture
                            ELSE IF s.broken THEN [gesture EXCEPT !.event = "template"]
                            ELSE [gesture EXCEPT !.event = "template", !.reset = TRUE,
                                                 !.press_pos = <<0, 0>>,
                                                 !.press_offset = <<-16, -16>>]
    /\ UNCHANGED <<timers, selected, exported, upc>>
    /\ UNCHANGED <<dragging, drag_start>>
    /\ UNCHANGED <<calcVars, batchVars, winVars>>

LabelNext ==
    \/ LoadImage \/ CallSetWatermark \/ CallSetWatermarkMode \/ CallSetImageWatermark
    \/ CallSetRotation \/ WheelEvent \/ ApplySettings

LabelSpec == LabelInit /\ [][LabelNext]_vars

(***************************************************************************)
(* The watermark panel and the preview: the events that touch the scale    *)
(* of the image watermark (wheel on the preview, the scale spin box, the   *)
(* type combo, a template being applied).                                  *)
(***************************************************************************)
PanelInit ==
    /\ CalcIdle /\ BatchIdle /\ WinIdle
    /\ text_edit = << >>
    /\ opacity_slider = 50
    /\ anchor_combo = "bottom-right"
    /\ preview = [watermark_text |-> DefaultText, opacity |-> 50, font_size |-> 32,
                  anchor |-> "bottom-right", offset |-> <<-16, -16>>,
                  wm_mode |-> "text", wm_image_pil |-> NoImage, wm_scale |-> 20,
                  rotation |-> 0, pil_base |-> NoImage,
                  composed |-> NothingDrawn(NoImage)]
    /\ timers = << >>
    /\ selected = NoImage
    /\ exported = [none |-> TRUE]
    /\ upc = "panel"
    /\ wm_scale_spin = 20
    /\ wm_type_combo = "text"
    /\ dragging = FALSE
    /\ drag_start = <<0, 0>>
    /\ gesture = [event |-> "none"]

PanelNext ==
    \/ LoadImage \/ OnWmTypeChange \/ OnPickWmImage \/ OnWmScaleChange
    \/ OnRotationChange \/ WheelEvent \/ ApplySettings

PanelSpec == PanelInit /\ [][PanelNext]_vars

(***************************************************************************)
(* The drag followed alone: the image is loaded or dropped, the mouse       *)
(* events of the preview label occur, and the handlers that assign the     *)
(* offset run (on_anchor_change with its timer, _apply_settings), gesture  *)
(* recording them.                                                         *)
(***************************************************************************)
DragInit ==
    /\ CalcIdle /\ BatchIdle /\ WinIdle
    /\ text_edit = << >>
    /\ opacity_slider = 50
    /\ anchor_combo = "bottom-right"
    /\ preview = [watermark_text |-> DefaultText, opacity |-> 50, font_size |-> 32,
                  anchor |-> "bottom-right", offset |-> <<-16, -16>>,
                  wm_mode |-> "text", wm_image_pil |-> NoImage, wm_scale |-> 20,
                  rotation |-> 0, pil_base |-> NoImage,
                  composed |-> NothingDrawn(NoImage)]
    /\ timers = << >>
    /\ selected = NoImage
    /\ exported = [none |-> TRUE]
    /\ upc = "drag"
    /\ wm_scale_spin = 20
    /\ wm_type_combo = "text"
    /\ dragging = FALSE
    /\ drag_start = <<0, 0>>
    /\ gesture = [event |-> "none", button |-> "none", pos |-> <<0, 0>>,
                  press_pos |-> <<0, 0>>, press_offset |-> <<-16, -16>>,
                  moves |-> 0, left_down |-> FALSE, open |-> FALSE, reset |-> FALSE]

\* The image list is emptied (remove_selected_images, clear_all_images):
\* _pil_base is deleted and update_composite clears the label.
DropImage ==
    /\ upc = "drag" /\ preview.pil_base # NoImage
    /\ selected' = NoImage
    /\ preview' = Recomposed([preview EXCEPT !.pil_base = NoImage])
    /\ UNCHANGED <<text_edit, opacity_slider, anchor_combo, timers, exported, upc>>
    /\ UNCHANGED <<wm_scale_spin, wm_type_combo, dragging, drag_start, gesture>>
    /\ UNCHANGED <<calcVars, batchVars, winVars>>

DragNext ==
    \/ LoadImage \/ DropImage \/ MousePress \/ MouseMove \/ MouseRelease
    \/ OnAnchorChange \/ TimerFire \/ ApplySettings

DragSpec == DragInit /\ [][DragNext]_vars

(***************************************************************************)
(* The image list and the export panel of the main window.  images is      *)
(* MainWindow.images, list_widget the paths the items of the list widget   *)
(* carry (UserRole) in row order, list_sel the rows selected, btn_export   *)
(* whether the export button is enabled, base_path the path of the image   *)
(* that is the preview's _pil_base (<< >> when the attribute is absent),   *)
(* out_dir_edit the text of the output directory field, watermark the      *)
(* mode, the text of the text edit and whether a watermark image is        *)
(* loaded, out_files the files the exports have written, by absolute path: *)
(* they stay on the disk.  export_log and load_log keep what on_export and *)
(* load_image did in the handler that ran last (last_op).  The source      *)
(* files are the environment's: it decides whether one is there and can be *)
(* decoded when it is opened or looked for, and the order in which the     *)
(* list widget returns its selected items.  Paths are POSIX paths.  WinSpec*)
(* follows the image list from the start of the window (wpc = "ready"),    *)
(* ExportSpec the export panel once images are listed (wpc = "export").    *)
(***************************************************************************)
MaxImages == 3
WinPaths == { <<"d", "/", "P", "h", "o", "t", "o", ".", "J", "P", "G">>,
              <<"e", "/", "P", "h", "o", "t", "o", ".", "p", "n", "g">>,
              <<"d", "/", "I", "m", "g", ".", "p", "n", "g">> }
OutDirTexts == { << >>, <<" ">>, <<"o">>, <<"e", "/">>, <<" ", "d", " ">> }
NotesPath == <<"d", "/", "n", ".", "t", "x", "t">>
AddPaths == WinPaths \cup {NotesPath}
AddInputs == { <<p>> : p \in AddPaths } \cup { <<p, p>> : p \in WinPaths }
             \cup { <<NotesPath, p>> : p \in WinPaths }
MaxWritten == 2
ExportLists ==
    { << >>,
      << <<"d", "/", "P", "h", "o", "t", "o", ".", "J", "P", "G">> >>,
      << <<"d", "/", "P", "h", "o", "t", "o", ".", "J", "P", "G">>,
         <<"e", "/", "P", "h", "o", "t", "o", ".", "p", "n", "g">> >>,
      << <<"e", "/", "P", "h", "o", "t", "o", ".", "p", "n", "g">>,
         <<"d", "/", "I", "m", "g", ".", "p", "n", "g">> >>,
      << <<"e", "/", "P", "h", "o", "t", "o", ".", "p", "n", "g">>,
         <<"d", "/", "I", "m", "g", ".", "p", "n", "g">>,
         <<"d", "/", "P", "h", "o", "t", "o", ".", "J", "P", "G">> >> }
WinTexts == { << >>, <<" ">>, <<"a">> }
Watermarks == [mode : {"text"}, text : WinTexts, image : BOOLEAN]
                 \cup [mode : {"image"}, text : {<<"a">>}, image : BOOLEAN]
SupportedExt == { <<".", "j", "p", "g">>, <<".", "j", "p", "e", "g">>, <<".", "p", "n", "g">>,
                  <<".", "b", "m", "p">>, <<".", "t", "i", "f">>, <<".", "t", "i", "f", "f">> }
Range(seq) == { seq[i] : i \in 1..Len(seq) }

\* os.path.dirname (POSIX): the head up to the last separator, without the
\* separators it ends with (head.rstrip('/')) unless it is made of separators
\* only.
Dirname(path) ==
    LET head == SubSeq(path, 1, LastIndexOf(path, "/"))
        body == { i \in 1..Len(head) : head[i] # "/" }
    IN  IF body = {} THEN head
        ELSE SubSeq(head, 1, CHOOSE i \in body : \A j \in body : j <= i)

\* str.split('/'): the components between the separators, empty ones kept.
RECURSIVE SplitSep(_)
SplitSep(str) ==
    IF \A i \in 1..Len(str) : str[i] # "/" THEN <<str>>
    ELSE LET i == CHOOSE k \in 1..Len(str) :
                      str[k] = "/" /\ \A j \in 1..(k - 1) : str[j] # "/"
         IN  <<SubSeq(str, 1, i - 1)>> \o SplitSep(SubSeq(str, i + 1, Len(str)))

\* '/'.join(comps)
RECURSIVE JoinSep(_)
JoinSep(comps) ==
    IF comps = << >> THEN << >>
    ELSE IF Len(comps) = 1 THEN comps[1]
    ELSE comps[1] \o <<"/">> \o JoinSep(Tail(comps))

\* The loop of os.path.normpath over the components from the i-th on: empty
\* components and "." are skipped, ".." takes back the component before it,
\* and is kept where there is none to take back in a relative path or where
\* the one before is ".." itself.
RECURSIVE NormComps(_, _, _, _)
NormComps(comps, i, new_comps, initial_slashes) ==
    IF i > Len(comps) THEN new_comps
    ELSE LET comp == comps[i]
             kept == IF comp \in { << >>, <<".">> } THEN new_comps
                     ELSE IF \/ comp # <<".", ".">>
                             \/ (initial_slashes = 0 /\ new_comps = << >>)
                             \/ (new_comps # << >> /\ new_comps[Len(new_comps)] = <<".", ".">>)
                          THEN Append(new_comps, comp)
                          ELSE IF new_comps # << >>
                               THEN SubSeq(new_comps, 1, Len(new_comps) - 1)
                               ELSE new_comps
         IN  \* the components kept so far are computed before the next step
             CHOOSE r \in { NormComps(comps, i + 1, k, initial_slashes) : k \in {kept} } : TRUE

\* os.path.normpath (POSIX): one leading separator is kept, two are kept as
\* two, three or more become one; the empty result is ".".
Normpath(path) ==
    LET initial_slashes ==
            IF path = << >> \/ path[1] # "/" THEN 0
            ELSE IF Len(path) >= 2 /\ path[2] = "/" /\ ~(Len(path) >= 3 /\ path[3] = "/")
                 THEN 2 ELSE 1
        joined == [i \in 1..initial_slashes |-> "/"]
                     \o JoinSep(NormComps(SplitSep(path), 1, << >>, initial_slashes))
    IN  IF joined = << >> THEN <<".">> ELSE joined

\* os.getcwd() of the running program: the working directory.
Cwd == <<"/", "w">>

\* os.path.abspath (POSIX): a path that is not absolute is joined to the
\* working directory (os.path.join puts a separator between them), and the
\* result is normalised.
Abspath(path) ==
    Normpath(IF path # << >> /\ path[1] = "/" THEN path ELSE Cwd \o <<"/">> \o path)

\* The elements of seq whose index is (keep) or is not (not keep) in rows.
RECURSIVE SelectRows(_, _, _, _)
SelectRows(seq, rows, keep, i) ==
    IF i > Len(seq) THEN << >>
    ELSE (IF (i \in rows) = keep THEN <<seq[i]>> ELSE << >>)
         \o SelectRows(seq, rows, keep, i + 1)

\* on_export exporting every item of the list: used to test the export
\* preconditions claim.
TargetPathsAll(items, rows) == { items }

\* on_export, lines 655-659: the paths of the selected items, in an order
\* selectedItems() returns them in.  Qt does not document the order, so
\* every order of the selected rows is one.
TargetPaths(items, rows) ==
    { [i \in 1..Cardinality(rows) |-> items[f[i]]] :
        f \in { g \in [1..Cardinality(rows) -> rows] :
                   \A i, j \in 1..Cardinality(rows) : g[i] = g[j] => i = j } }

\* The names _export_preview_like_batch writes for the paths from the i-th
\* on, the directory being writable: each name is resolved against the
\* directory as the earlier outputs left it.
RECURSIVE ExportedNames(_, _, _, _)
ExportedNames(paths, settings, existing, i) ==
    IF i > Len(paths) THEN << >>
    ELSE LET out_path == BuildOutputPath(paths[i], settings, existing)
         IN  <<out_path>> \o ExportedNames(paths, settings, existing \cup {out_path}, i + 1)

\* The files os.path.exists finds in the directory dir, by name.
NamesIn(paths, dir) == { Basename(f) : f \in { g \in paths : Dirname(g) = dir } }

\* The runs of _export_preview_like_batch on_export can start: the target
\* paths in an order of target_orders, those of them that can be read and
\* composed, in that order, and the files os.path.exists
\* (_build_output_path, lines 1076 and 1081) finds: those written by the
\* exports before (written), the files read, and any other of the source
\* files that lie in the output directory (in_dir), listed or not.
ExportRuns(target_orders, in_dir, written) ==
    UNION { UNION { { <<target_paths, readable, written \cup { Abspath(q) : q \in there }>> :
                         there \in { t \in SUBSET in_dir : Range(readable) \cap in_dir \subseteq t } }
                    : readable \in { SelectSeq(target_paths, LAMBDA q : q \notin unreadable) :
                                       unreadable \in SUBSET Range(target_paths) } }
            : target_paths \in target_orders }

\* The first loop of add_images (lines 497-503) from the i-th path on: the
\* paths appended to imgs, those of a supported extension that are files
\* (there) and are not listed yet.
RECURSIVE NewFiles(_, _, _, _)
NewFiles(paths, there, imgs, i) ==
    IF i > Len(paths) THEN << >>
    ELSE LET p   == paths[i]
             new == /\ Lower(SplitExt(Basename(p))[2]) \in SupportedExt
                    /\ p \in there
                    /\ \A k \in 1..Len(imgs) : imgs[k] # p
         IN  IF new THEN <<p>> \o NewFiles(paths, there, Append(imgs, p), i + 1)
             ELSE NewFiles(paths, there, imgs, i + 1)

\* PreviewLabel.load_image: the path is not a file (silent return), cannot
\* be opened or scaled (the except branch shows a warning), or is loaded.
LoadOutcomes == {"loaded", "not a file", "undecodable"}
LoadLog(path, outcome) ==
    [path |-> path, outcome |-> outcome, warned |-> (outcome = "undecodable")]
NoLoad == [outcome |-> "none"]
NoExport == [result |-> "none"]
Refused(why) == [result |-> why, written |-> << >>]

\* on_selection_change after the selection became rows, the preview holding
\* base: without a selected item nothing is loaded; else load_image of the
\* first of selectedItems(), whose order Qt does not document.
LoadSelected(rows, items, base) ==
    IF rows = {} THEN base_path' = base /\ load_log' = NoLoad
    ELSE \E r \in rows : \E outcome \in LoadOutcomes :
            /\ load_log' = LoadLog(items[r], outcome)
            /\ base_path' = IF outcome = "loaded" THEN items[r] ELSE base

\* MainWindow.__init__: no images; the export button is created enabled and
\* nothing disables it before the first add_images.
WinInit ==
    /\ CalcIdle /\ BatchIdle /\ UiIdle
    /\ images = << >>
    /\ list_widget = << >>
    /\ list_sel = {}
    /\ btn_export = TRUE
    /\ base_path = << >>
    /\ out_dir_edit = << >>
    /\ watermark = [mode |-> "text", text |-> << >>, image |-> FALSE]
    /\ export_log = NoExport
    /\ load_log = NoLoad
    /\ last_op = "none"
    /\ wpc = "ready"
    /\ out_files = {}

\* add_images(paths): the new files are appended to images and to the list
\* widget; when the preview shows no pixmap setCurrentRow(0) selects the first
\* row (beside or in place of the rows selected), and a changed selection
\* loads the selected image; then _update_export_enabled.
AddImages ==
    /\ wpc = "ready"
    /\ \E paths \in AddInputs : \E there \in SUBSET Range(paths) :
          \E new_files \in { NewFiles(paths, there, images, 1) } :
             /\ Len(images) + Len(new_files) <= MaxImages
             /\ images' = images \o new_files
             /\ list_widget' = list_widget \o new_files
             /\ IF new_files # << >> /\ base_path = << >>
                THEN \E rows \in { {1}, list_sel \cup {1} } :
                        /\ list_sel' = rows
                        /\ IF rows # list_sel
                           THEN LoadSelected(rows, list_widget', base_path)
                           ELSE base_path' = base_path /\ load_log' = NoLoad
                ELSE list_sel' = list_sel /\ base_path' = base_path /\ load_log' = NoLoad
             /\ btn_export' = (images' # << >>)
    /\ export_log' = NoExport
    /\ last_op' = "add_images"
    /\ UNCHANGED <<out_dir_edit, watermark, wpc, out_files>>
    /\ UNCHANGED <<calcVars, batchVars, uiVars>>

\* The user selects rows of the list (extended selection): on_selection_change.
SelectItems ==
    /\ wpc \in {"ready", "export"}
    /\ \E rows \in SUBSET (1..Len(list_widget)) :
          /\ rows # list_sel
          /\ list_sel' = rows
          /\ LoadSelected(rows, list_widget, base_path)
    /\ export_log' = NoExport
    /\ last_op' = "select"
    /\ UNCHANGED <<images, list_widget, btn_export, out_dir_edit, watermark, wpc, out_files>>
    /\ UNCHANGED <<calcVars, batchVars, uiVars>>

\* remove_selected_images: without a selection it returns; else the selected
\* paths leave images and their items the list widget.  Each takeItem changes
\* the selection, so a selected item not yet taken may be loaded meanwhile
\* (mid).  Then the first remaining row is made current and loaded, or, the
\* list being empty, _pil_base is deleted; then _update_export_enabled.
RemoveSelectedImages ==
    /\ wpc = "ready"
    /\ IF list_sel = {}
       THEN /\ load_log' = NoLoad
            /\ UNCHANGED <<images, list_widget, list_sel, btn_export, base_path>>
       ELSE \E remove_paths \in { { list_widget[r] : r \in list_sel } } :
            \E mid \in {base_path} \cup
                       (IF Cardinality(list_sel) >= 2 THEN remove_paths ELSE {}) :
               /\ images' = SelectSeq(images, LAMBDA q : q \notin remove_paths)
               /\ list_widget' = SelectRows(list_widget, list_sel, FALSE, 1)
               /\ IF list_widget' # << >>
                  THEN /\ list_sel' = {1}
                       /\ LoadSelected({1}, list_widget', mid)
                  ELSE /\ list_sel' = {}
                       /\ base_path' = << >>
                       /\ load_log' \in
                            IF Cardinality(list_sel) >= 2
                            THEN { LoadLog(q, o) : q \in remove_paths, o \in LoadOutcomes }
                            ELSE { NoLoad }
               /\ btn_export' = (images' # << >>)
    /\ export_log' = NoExport
    /\ last_op' = "remove_selected_images"
    /\ UNCHANGED <<out_dir_edit, watermark, wpc, out_files>>
    /\ UNCHANGED <<calcVars, batchVars, uiVars>>

\* clear_all_images: it returns when images is empty; else both lists are
\* cleared, _pil_base is deleted and _update_export_enabled runs.
ClearAllImages ==
    /\ wpc = "ready"
    /\ IF images = << >>
       THEN UNCHANGED <<images, list_widget, list_sel, btn_export, base_path>>
       ELSE /\ images' = << >>
            /\ list_widget' = << >>
            /\ list_sel' = {}
            /\ base_path' = << >>
            /\ btn_export' = FALSE
    /\ load_log' = NoLoad
    /\ export_log' = NoExport
    /\ last_op' = "clear_all_images"
    /\ UNCHANGED <<out_dir_edit, watermark, wpc, out_files>>
    /\ UNCHANGED <<calcVars, batchVars, uiVars>>

\* on_pick_out_dir, or typing into the output directory field.
OnPickOutDir ==
    /\ wpc \in {"ready", "export"}
    /\ \E d \in OutDirTexts :
          /\ d # out_dir_edit
          /\ out_dir_edit' = d
    /\ load_log' = NoLoad
    /\ export_log' = NoExport
    /\ last_op' = "on_pick_out_dir"
    /\ UNCHANGED <<images, list_widget, list_sel, btn_export, base_path, watermark, wpc,
                   out_files>>
    /\ UNCHANGED <<calcVars, batchVars, uiVars>>

\* The watermark type is switched, the watermark text is typed or cleared,
\* or a watermark image is picked or fails to load.
OnWatermarkEdit ==
    /\ wpc \in {"ready", "export"}
    /\ \E w \in Watermarks :
          /\ w # watermark
          /\ watermark' = w
    /\ load_log' = NoLoad
    /\ export_log' = NoExport
    /\ last_op' = "watermark"
    /\ UNCHANGED <<images, list_widget, list_sel, btn_export, base_path, out_dir_edit, wpc,
                   out_files>>
    /\ UNCHANGED <<calcVars, batchVars, uiVars>>

\* The message on_export returns early with, lines 613-656: without images,
\* without an output directory, when the output directory is the directory
\* of the first image of the list, without the watermark of the current
\* mode, or without a selection; "none" when it goes on.
ExportRefusal(out_dir_text) ==
    IF images = << >> THEN "no images"
    ELSE IF out_dir_text = << >> THEN "no output directory"
    ELSE IF Abspath(out_dir_text) = Abspath(Dirname(images[1])) THEN "source directory"
    ELSE IF watermark.mode = "text" /\ Strip(watermark.text) = << >> THEN "no watermark"
    ELSE IF watermark.mode # "text" /\ ~watermark.image THEN "no watermark"
    ELSE IF list_sel = {} THEN "no selection"
    ELSE "none"

\* on_export, lines 612-661: unless it returns early the selected images are
\* exported into the directory in the order of selectedItems(), each one that
\* cannot be composed (unreadable) counting as a failure, each other written
\* under the name _build_output_path finds free in the directory as it is
\* then; the files written stay there.  The exports write at most MaxWritten
\* files in all.
OnExportSelected ==
    /\ wpc = "export"
    /\ \E out_dir_text \in { Strip(out_dir_edit) } :
       \E refusal \in { ExportRefusal(out_dir_text) } :
          IF refusal # "none"
          THEN export_log' = Refused(refusal) /\ out_files' = out_files
          ELSE \E dir \in { Abspath(out_dir_text) } :
               \E in_dir \in { { q \in WinPaths : Abspath(Dirname(q)) = dir } } :
               \E log \in { [result |-> "exported", dir |-> dir, images |-> images,
                              targets |-> run[1],
                              ok |-> Len(run[2]),
                              fail |-> Len(run[1]) - Len(run[2]),
                              written |-> ExportedNames(run[2], BatchSettings,
                                                        NamesIn(run[3], dir), 1)]
                             : run \in ExportRuns(TargetPaths(list_widget, list_sel),
                                                  in_dir, out_files) } :
                  /\ export_log' = log
                  /\ out_files' = out_files
                                     \cup { dir \o <<"/">> \o name : name \in Range(log.written) }
                  /\ Cardinality(out_files') <= MaxWritten
    /\ load_log' = NoLoad
    /\ last_op' = "on_export"
    /\ UNCHANGED <<images, list_widget, list_sel, btn_export, base_path, out_dir_edit,
                   watermark, wpc>>
    /\ UNCHANGED <<calcVars, batchVars, uiVars>>

WinNext == AddImages \/ SelectItems \/ RemoveSelectedImages \/ ClearAllImages

WinSpec == WinInit /\ [][WinNext]_vars

\* The window after add_images has listed the images of one of ExportLists,
\* the first loaded into the preview and selected, or before any was added.
ExportInit ==
    /\ CalcIdle /\ BatchIdle /\ UiIdle
    /\ images \in ExportLists
    /\ list_widget = images
    /\ list_sel = IF images = << >> THEN {} ELSE {1}
    /\ btn_export = TRUE
    /\ base_path = IF images = << >> THEN << >> ELSE images[1]
    /\ out_dir_edit = << >>
    /\ watermark = [mode |-> "text", text |-> << >>, image |-> FALSE]
    /\ export_log = NoExport
    /\ load_log = NoLoad
    /\ last_op = IF images = << >> THEN "none" ELSE "add_images"
    /\ wpc = "export"
    /\ out_files = {}

ExportNext == SelectItems \/ OnPickOutDir \/ OnWatermarkEdit \/ OnExportSelected

ExportSpec == ExportInit /\ [][ExportNext]_vars

(***************************************************************************)
(* Rendering as a state machine: one watermark is composed by each path    *)
(* (update_composite, _compose_preview_like, export_batch) from the same   *)
(* parameters.                                                             *)
(***************************************************************************)
MaxGlyphs == 2
PlaceSources == { <<40, 30>>, <<1800, 1400>> }
PlaceOffsets == { <<-16, -16>>, <<0, 0>>, <<-30, -9>>, <<-5000, 3>>, <<7, 5000>>, <<2000, 2000>> }
PlaceTexts == { [i \in 1..k |-> "a"] : k \in 1..MaxGlyphs }
PlaceFonts == {6, 32}
PlaceRotations == {0, 45, 90}
PlaceWatermark == <<40, 20>>

\* The fields of a PreviewLabel that has loaded src and was given the
\* parameters a by its setters: set_watermark bounds the font size to 6..400.
PlacedLabel(a) ==
    [watermark_text |-> a.text, opacity |-> a.opacity,
     font_size |-> Max2(6, Min2(400, a.font_size)),
     anchor |-> a.anchor, offset |-> a.off, wm_mode |-> a.mode,
     wm_image_pil |-> IF a.mode = "image" THEN PlaceWatermark ELSE NoImage,
     wm_scale |-> 20, rotation |-> a.rotation,
     pil_base |-> PreviewCanvas(a.src[1], a.src[2])]

\* The values of the opacity slider (setRange(0, 100)) and alphas of a
\* watermark image's pixels.
OpacityPercents == 0..100
SourceAlphas == {0, 1, 77, 255}

\* Bitmaps as objects.  A heap is the sequence of the bitmaps that exist, a
\* bitmap is known by its index, and holds its size and what has been drawn
\* on it.  Image.copy, Image.convert, Image.open and Image.new make a new
\* bitmap; paste and ImageDraw.text draw on the bitmap they are given;
\* Image.alpha_composite makes a new bitmap from two.
MaxRecompose == 2
Bitmap(size) == [size |-> size, marks |-> << >>]
\* Image.copy making no bitmap, so that the caller goes on with the last one
\* there is: used to test the compose claims.
CopyBitmapAliased(heap, id) == heap
CopyBitmap(heap, id) == Append(heap, heap[id])
NewBitmap(heap, size) == Append(heap, Bitmap(size))
DrawOn(heap, id, mark) == [heap EXCEPT ![id].marks = Append(@, mark)]
AlphaComposite(heap, im1, im2) ==
    Append(heap, [size |-> heap[im1].size, marks |-> heap[im1].marks \o heap[im2].marks])


\* A composite comp drawn over the bitmap img: a transparent layer is made,
\* the watermark pasted on it, and the two composed.  The result is the last
\* bitmap of the heap returned.
LayerOver(heap, img, comp) ==
    LET layered == NewBitmap(heap, heap[img].size)
        layer   == Len(layered)
    IN  AlphaComposite(DrawOn(layered, layer, comp), img, layer)

\* preview_composer.compose_text_watermark(base_rgba, text=..., pos_xy=...):
\* the bitmap is converted or copied, returned as it is for an empty text, else
\* composed with a layer the text is drawn on.
ComposeTextWatermark(heap, base_rgba, text, pos_xy) ==
    LET copied == CopyBitmap(heap, base_rgba)
        img    == Len(copied)
    IN  IF text = << >> THEN copied
        ELSE LayerOver(copied, img, [payload |-> "text", text |-> text, pos |-> pos_xy])

\* update_composite on the stored base: the copy of _pil_base, with the layer
\* of the current mode over it if there is one.
UpdateCompositeOn(heap, pil_base, pv) ==
    LET copied == CopyBitmap(heap, pil_base)
        img    == Len(copied)
        comp   == UpdateComposite(pv)
    IN  IF comp.payload = "none" THEN copied ELSE LayerOver(copied, img, comp)

\* update_composite run times times on the same stored base.
RECURSIVE Recomposes(_, _, _, _)
Recomposes(heap, pil_base, pv, times) ==
    IF times = 0 THEN heap
    ELSE Recomposes(UpdateCompositeOn(heap, pil_base, pv), pil_base, pv, times - 1)

\* _compose_preview_like and export_batch on the bitmap a source file holds:
\* Image.open(...).convert('RGBA') decodes it into a new bitmap, which the
\* layer is composed with.
ExportCompositeOn(heap, file, comp) ==
    LET opened == CopyBitmap(heap, file)
    IN  LayerOver(opened, Len(opened), comp)

RenderInit ==
    /\ BatchIdle /\ UiIdle /\ WinIdle
    /\ pc = "call"
    /\ res = NoResult
    /\ \/ /\ fn = "place"
          /\ arg \in { a \in [src : PlaceSources, off : PlaceOffsets,
                              anchor : AnchorInputs, text : PlaceTexts,
                              font_size : PlaceFonts, opacity : {50},
                              rotation : PlaceRotations, mode : {"text", "image"},
                              ink : Inks] :
                          \* a bitmap turned by another angle than a right one
                          \* has transparent corners
                          a.ink = "solid" => a.rotation % 90 = 0 }
       \/ /\ fn = "compose"
          /\ arg \in [text : {<< >>} \cup PlaceTexts, mode : {"text", "image"},
                      photo : BOOLEAN, times : 1..MaxRecompose]
       \/ /\ fn = "text"
          /\ arg \in [text : {<< >>} \cup PlaceTexts, font_size : {0, 6, 32},
                      anchor : {"center", "bottom-right"}, src : PlaceSources,
                      off : {<<0, 0>>, <<-16, -16>>}, photo : BOOLEAN, ink : Inks]
       \/ /\ fn = "opacity"
          /\ arg \in { a \in [v : SourceAlphas, p : OpacityPercents, q : OpacityPercents,
                              ink : Inks] :
                          a.q \in {a.p, a.p + 1, 50, 100} /\ a.p <= a.q }

\* One watermark composed by the three paths.  export_batch is given the
\* offset as the ratios _offset_ratio takes on the preview canvas.
CallPlace ==
    /\ pc = "call" /\ fn = "place"
    /\ LET pv == PlacedLabel(arg)
       IN  res' = [preview |-> UpdateComposite(pv),
                   like    |-> ComposePreviewLike(pv, arg.src, arg.text),
                   core    |-> ExportBatchComposite(arg.src, arg.text, arg.font_size,
                                  arg.opacity, arg.anchor,
                                  <<OffsetRatio(arg.off[1], pv.pil_base[1]),
                                    OffsetRatio(arg.off[2], pv.pil_base[2])>>)]
    /\ pc' = "ret"
    /\ UNCHANGED <<fn, arg>>
    /\ UNCHANGED <<batchVars, uiVars, winVars>>

\* A text watermark and an image watermark rendered at the opacities p and q,
\* p <= q (q the next slider value, the default or the maximum), and composed
\* at the opacity p by the three paths.
OpacityLabel(percent, mode) ==
    PlacedLabel([src |-> <<40, 30>>, off |-> <<0, 0>>, anchor |-> "center",
                 text |-> <<"a">>, font_size |-> 6, opacity |-> percent,
                 rotation |-> 0, mode |-> mode])

CallOpacity ==
    /\ pc = "call" /\ fn = "opacity"
    /\ res' = [lo |-> [text |-> TextAlpha(arg.p), image |-> ImageAlpha(arg.v, arg.p)],
               hi |-> [text |-> TextAlpha(arg.q), image |-> ImageAlpha(arg.v, arg.q)],
               text_shown  |-> UpdateComposite(OpacityLabel(arg.p, "text")),
               image_shown |-> UpdateComposite(OpacityLabel(arg.p, "image")),
               text_like   |-> ComposePreviewLike(OpacityLabel(arg.p, "text"),
                                                  <<40, 30>>, <<"a">>),
               image_like  |-> ComposePreviewLike(OpacityLabel(arg.p, "image"),
                                                  <<40, 30>>, <<"a">>),
               core        |-> ExportBatchComposite(<<40, 30>>, <<"a">>, 6, arg.p,
                                  "center", <<OffsetRatio(0, 40),
                                                    OffsetRatio(0, 30)>>)]
    /\ pc' = "ret"
    /\ UNCHANGED <<fn, arg>>
    /\ UNCHANGED <<batchVars, uiVars, winVars>>

\* Every compose operation applied to the bitmap 1 of a heap that holds
\* nothing else, a blank bitmap or a photo: res keeps the heap each leaves; the
\* bitmap returned is the last of it.
ComposeLabel(a) ==
    PlacedLabel([src |-> <<40, 30>>, off |-> <<0, 0>>, anchor |-> "center",
                 text |-> a.text, font_size |-> 6, opacity |-> 50,
                 rotation |-> 0, mode |-> a.mode])

CallCompose ==
    /\ pc = "call" /\ fn = "compose"
    /\ LET heap == <<[size |-> <<40, 30>>,
                      marks |-> IF arg.photo THEN <<[payload |-> "photo"]>> ELSE << >>]>>
           pv   == ComposeLabel(arg)
       IN  res' = [before |-> heap,
                   composer |-> ComposeTextWatermark(heap, 1, arg.text, <<0, 0>>),
                   preview  |-> Recomposes(heap, 1, pv, arg.times),
                   like     |-> ExportCompositeOn(heap, 1,
                                    ComposePreviewLike(pv, <<40, 30>>, arg.text)),
                   core     |-> ExportCompositeOn(heap, 1,
                                    ExportBatchComposite(<<40, 30>>, arg.text, 6, 50,
                                        "center", <<OffsetRatio(0, 40), OffsetRatio(0, 30)>>))]
    /\ pc' = "ret"
    /\ UNCHANGED <<fn, arg>>
    /\ UNCHANGED <<batchVars, uiVars, winVars>>

\* A text, the empty one among the inputs, composed by compose_text_watermark
\* on a bitmap, by the text branch of the preview, by _compose_preview_like and
\* by export_batch.
CallText ==
    /\ pc = "call" /\ fn = "text"
    /\ LET heap == <<[size |-> arg.src,
                      marks |-> IF arg.photo THEN <<[payload |-> "photo"]>> ELSE << >>]>>
           pv   == PlacedLabel([src |-> arg.src, off |-> arg.off, anchor |-> arg.anchor,
                                text |-> arg.text, font_size |-> arg.font_size,
                                opacity |-> 100, rotation |-> 0, mode |-> "text"])
       IN  res' = [before |-> heap,
                   composer |-> ComposeTextWatermark(heap, 1, arg.text, <<0, 0>>),
                   preview  |-> UpdateComposite(pv),
                   like     |-> ComposePreviewLike(pv, arg.src, arg.text),
                   core     |-> ExportBatchComposite(arg.src, arg.text, arg.font_size, 100,
                                    arg.anchor,
                                    <<OffsetRatio(arg.off[1], pv.pil_base[1]),
                                      OffsetRatio(arg.off[2], pv.pil_base[2])>>)]
    /\ pc' = "ret"
    /\ UNCHANGED <<fn, arg>>
    /\ UNCHANGED <<batchVars, uiVars, winVars>>

RenderNext == CallPlace \/ CallOpacity \/ CallCompose \/ CallText

RenderSpec == RenderInit /\ [][RenderNext]_vars

(***************************************************************************)
(* Properties of the main window.                                          *)
(***************************************************************************)
\* C1: whenever an image is exported, _compose_preview_like computes the
\* canvas size, the layer size, the anchor base, the draw position and the
\* payload that update_composite computes for that image in the same state.
PreviewExportParity ==
    ("export" \in DOMAIN exported) =>
        /\ exported.export.canvas = exported.preview.canvas
        /\ exported.export.layer = exported.preview.layer
        /\ exported.export.base = exported.preview.base
        /\ exported.export.pos = exported.preview.pos
        /\ exported.export = exported.preview

\* C11: on_export writes no file when the output directory is the directory
\* of any image of the list, the exported images among them.
ExportIntoSourceDirRefused ==
    (export_log.result = "exported") =>
        \A i \in 1..Len(export_log.images) :
            Abspath(Dirname(export_log.images[i])) = export_log.dir
                => export_log.written = << >>

\* C15: after any sequence of setter calls, wheel events and template
\* applications the rotation is an integer in [-180, 180], the font size in
\* [6, 400], the opacity in [0, 1] and the image scale in [1, 400]; the
\* preview, _compose_preview_like and export_batch, given any font size, all
\* set a font pixel size in [6, 400].
ParameterRanges ==
    (upc = "label") =>
        /\ preview.rotation \in -180..180
        /\ preview.font_size \in 6..400
        /\ preview.opacity \in 0..100
        /\ preview.wm_scale \in 1..400
        /\ preview.composed.payload = "text" => preview.composed.px \in 6..400
        /\ LET like == ComposePreviewLike(preview, LabelSource, preview.watermark_text)
           IN  like.payload = "text" => like.px \in 6..400
        /\ \A f \in RawFontSizes \cup {preview.font_size} :
              ExportBatchComposite(LabelSource, preview.watermark_text, f, preview.opacity,
                                   preview.anchor, <<OffsetRatio(0, 1), OffsetRatio(0, 1)>>).px
                  \in 6..400

\* Every parameter has been driven to a limit of its range and the text is
\* drawn at the largest font.
ParameterRangesWitness ==
    /\ upc = "label"
    /\ preview.rotation = -180 /\ preview.font_size = 400
    /\ preview.opacity = 100 /\ preview.wm_scale = 1
    /\ preview.composed.payload = "text" /\ preview.composed.px = 400

\* C16: a call of set_watermark_mode leaves the offset, the anchor and the
\* rotation as they were, and sets the mode when it is 'text' or 'image'; with
\* any other name it changes no field of the label and redraws nothing.
ModeSwitchPreservesPlacement ==
    [][\A mode \in RawModes :
          (upc = "label" /\ preview' = SetWatermarkMode(preview, mode)) =>
              /\ preview'.offset = preview.offset
              /\ preview'.anchor = preview.anchor
              /\ preview'.rotation = preview.rotation
              /\ mode \in {"text", "image"} =>
                    /\ preview'.wm_mode = mode
                    /\ preview' = [preview EXCEPT !.wm_mode = mode,
                                                  !.composed = preview'.composed]
              /\ mode \notin {"text", "image"} => preview' = preview]_vars

\* The label is in text mode with the placement and the watermark image only
\* the image-mode template gives: the mode was switched after it.
ModeSwitchPreservesPlacementWitness ==
    /\ upc = "label" /\ preview.wm_mode = "text"
    /\ preview.offset = <<3, 4>> /\ preview.anchor = "center" /\ preview.rotation = 90
    /\ preview.wm_scale = 400 /\ preview.wm_image_pil = LabelWatermark
    /\ preview.composed.payload = "text"

\* C17: the mode is 'text' or 'image', and what the preview shows and what an
\* export composes holds the payload of that mode only: a text layer in text
\* mode alone, an image layer in image mode alone.
ExactlyOnePayload ==
    (upc = "ready") =>
        /\ preview.wm_mode \in {"text", "image"}
        /\ preview.composed.payload \in {"none", preview.wm_mode}
        /\ ("export" \in DOMAIN exported) =>
              exported.export.payload \in {"none", preview.wm_mode}

(***************************************************************************)
(* Properties of rendering.                                                *)
(***************************************************************************)
\* The pasted bitmap of a composite lies wholly outside its canvas.
FullyOutside(comp) ==
    \/ comp.pos[1] + comp.pasted[1] <= 0 \/ comp.pos[1] >= comp.canvas[1]
    \/ comp.pos[2] + comp.pasted[2] <= 0 \/ comp.pos[2] >= comp.canvas[2]

\* The pixel offset export_batch adds for the offset off dragged on the
\* preview canvas of src.
TranslatedOffset(off, src) ==
    LET pvc == PreviewCanvas(src[1], src[2])
    IN  <<RatioToPixels(OffsetRatio(off[1], pvc[1]), src[1]),
          RatioToPixels(OffsetRatio(off[2], pvc[2]), src[2])>>

\* C12: on every path the layer is drawn at the anchor position plus the
\* offset, whatever the anchor and the offset and wherever that lies; a
\* composite is produced in every case, it changes no pixel when the layer
\* lies wholly outside the canvas, and a layer of solid ink changes one
\* whenever it does not.
NoClamping ==
    (pc = "ret" /\ fn = "place") =>
        /\ \A c \in {res.preview, res.like} :
              /\ c.payload = arg.mode
              /\ c.base = PreviewAnchorPos(c.canvas[1], c.canvas[2],
                                           c.layer[1], c.layer[2], arg.anchor)
              /\ c.pos = <<c.base[1] + arg.off[1], c.base[2] + arg.off[2]>>
        /\ LET c == res.core
               t == TranslatedOffset(arg.off, arg.src)
           IN  /\ c.payload = "text"
               /\ c.base = AnchorPos(c.canvas[1], c.canvas[2], c.layer[1], c.layer[2],
                                     arg.anchor)
               /\ c.pos = <<c.base[1] + t[1], c.base[2] + t[2]>>
        /\ \A c \in {res.preview, res.like, res.core} :
              /\ FullyOutside(c) => Changed(c, Mask(c, arg.ink)) = {}
              /\ (arg.ink = "solid" /\ ~FullyOutside(c)) => Changed(c, Mask(c, arg.ink)) # {}

\* A text layer is drawn wholly outside the preview canvas, another partly.
NoClampingWitness ==
    /\ pc = "ret" /\ fn = "place" /\ arg.mode = "text"
    /\ FullyOutside(res.preview) /\ Changed(res.preview, Mask(res.preview, arg.ink)) = {}
    /\ ~FullyOutside(res.core)
    /\ res.core.pos[1] < 0

\* C14: the alpha of every layer pixel is int(255 * opacity) under a text
\* and int(v * opacity) under an image pixel of alpha v (v itself at opacity
\* 1); it does not fall when the opacity rises; at opacity 0 it is 0 and no
\* path lays anything over the base, in text mode and in image mode.
OpacityMonotone ==
    (pc = "ret" /\ fn = "opacity") =>
        /\ res.lo.text <= res.hi.text
        /\ res.lo.image <= res.hi.image
        /\ PasteAlpha(res.lo.text) <= PasteAlpha(res.hi.text)
        /\ PasteAlpha(res.lo.image) <= PasteAlpha(res.hi.image)
        /\ arg.q = 100 => res.hi.text = 255 /\ res.hi.image = arg.v
        /\ \A c \in {res.text_shown, res.text_like, res.core} :
              c.alpha = res.lo.text /\ LayerAlpha(c) = res.lo.text
        /\ \A c \in {res.image_shown, res.image_like} :
              c.alpha = ImageAlpha(255, arg.p) /\ LayerAlpha(c) = ImageAlpha(255, arg.p)
        /\ arg.p = 0 =>
              /\ res.lo.text = 0 /\ res.lo.image = 0
              /\ \A c \in {res.text_shown, res.text_like, res.core,
                           res.image_shown, res.image_like} :
                    /\ c.payload # "none" /\ LayerAlpha(c) = 0
                    /\ Changed(c, Mask(c, arg.ink)) = {}

\* C18: compose_text_watermark, update_composite (run once or several times
\* on the stored base), _compose_preview_like and export_batch leave the
\* bitmap they are given as it was and return another bitmap: one that holds
\* the base and, when a layer was drawn, the layer; for an empty text
\* compose_text_watermark returns a new bitmap equal to the base.
ComposeKeepsBase ==
    (pc = "ret" /\ fn = "compose") =>
        /\ \A heap \in {res.composer, res.preview, res.like, res.core} :
              /\ heap[1] = res.before[1]
              /\ Len(heap) > 1
              /\ heap[Len(heap)].size = res.before[1].size
              /\ SubSeq(heap[Len(heap)].marks, 1, Len(res.before[1].marks))
                    = res.before[1].marks
        /\ arg.text = << >> =>
              res.composer[Len(res.composer)] = res.before[1]
        /\ arg.text # << >> =>
              \A heap \in {res.composer, res.preview, res.like, res.core} :
                 Len(heap[Len(heap)].marks) = Len(res.before[1].marks) + 1

\* The preview was recomposed more than once with a visible layer.
ComposeKeepsBaseWitness ==
    /\ pc = "ret" /\ fn = "compose" /\ arg.times = MaxRecompose /\ arg.text # << >>
    /\ res.preview[1] = res.before[1]
    /\ res.preview[Len(res.preview)].marks # res.before[1].marks

\* C19: for the empty text compose_text_watermark returns a bitmap equal to
\* the base, and the text branch of the preview and export_batch (and
\* _compose_preview_like) produce a composite that changes no pixel of the
\* base; a text that is not empty is drawn by all of them, and one of solid
\* ink changes pixels unless it lies outside the canvas.
EmptyTextNoOp ==
    (pc = "ret" /\ fn = "text") =>
        /\ arg.text = << >> =>
              /\ res.composer[Len(res.composer)] = res.before[1]
              /\ res.composer[1] = res.before[1]
              /\ \A c \in {res.preview, res.like, res.core} :
                    c.canvas # NoImage /\ Changed(c, Mask(c, arg.ink)) = {}
        /\ arg.text # << >> =>
              /\ res.composer[Len(res.composer)] # res.before[1]
              /\ \A c \in {res.preview, res.like, res.core} :
                    /\ c.payload = "text"
                    /\ (arg.ink = "solid" /\ Changed(c, Mask(c, arg.ink)) = {})
                          => FullyOutside(c)

\* The empty text went through every path, on a photo, at the default font.
EmptyTextNoOpWitness ==
    /\ pc = "ret" /\ fn = "text" /\ arg.text = << >> /\ arg.photo
    /\ arg.font_size = 32
    /\ res.preview.payload = "none" /\ res.core.payload = "text"
    /\ Changed(res.core, Mask(res.core, arg.ink)) = {}

\* C20 as stated: a text of zero advance width is rendered as a layer of
\* width 1 and height 1, without ink, and a composite is produced.
DegenerateLayerOneByOne ==
    (pc = "ret" /\ fn = "text" /\ HorizontalAdvance(arg.text, res.core.px) = 0) =>
        \A c \in {res.like, res.core} :
            c.payload = "text" /\ c.layer = <<1, 1>> /\ ~Inked(c)

\* C20 amended: a text of zero advance width is rendered as a layer of width
\* 1 and of the line height of the font (at least 1), without ink, which
\* changes no pixel; a composite is produced.
DegenerateLayer ==
    (pc = "ret" /\ fn = "text" /\ HorizontalAdvance(arg.text, res.core.px) = 0) =>
        \A c \in {res.like, res.core} :
            /\ c.payload = "text"
            /\ c.layer = <<1, Max2(1, FontHeight(c.px))>>
            /\ c.pasted = c.layer
            /\ ~Inked(c) /\ Changed(c, Mask(c, arg.ink)) = {}

\* export_batch rendered a text of zero advance width at the default font:
\* the layer is one pixel wide and taller than one pixel.
DegenerateLayerWitness ==
    /\ pc = "ret" /\ fn = "text" /\ arg.text = << >> /\ arg.font_size = 32
    /\ res.core.layer[1] = 1 /\ res.core.layer[2] > 1
    /\ res.like.layer = res.core.layer

(***************************************************************************)
(* Properties of the pure functions.                                       *)
(***************************************************************************)
LeftAnchors == {"top-left", "middle-left", "bottom-left"}
RightAnchors == {"top-right", "middle-right", "bottom-right"}
TopAnchors == {"top-left", "top-center", "top-right"}
BottomAnchors == {"bottom-left", "bottom-center", "bottom-right"}
CenterXAnchors == {"top-center", "center", "bottom-center"}
CenterYAnchors == {"middle-left", "center", "middle-right"}

\* C2: for each of the nine anchors the resolver returns x = 16 on the left,
\* x = W - lw - 16 on the right, y = 16 at the top, y = H - lh - 16 at the
\* bottom, and on a centred axis a value within 1 px of (W - lw)/2 resp.
\* (H - lh)/2, also when the layer is larger than the canvas; both copies of
\* the resolver return the same result for every input.
AnchorCorrectness ==
    (pc = "ret" /\ fn = "anchor") =>
        /\ res.core = res.preview
        /\ arg.anchor \in AnchorNames =>
            LET x == res.core[1]
                y == res.core[2]
            IN  /\ arg.anchor \in LeftAnchors => x = 16
                /\ arg.anchor \in RightAnchors => x = arg.W - arg.tw - 16
                /\ arg.anchor \in TopAnchors => y = 16
                /\ arg.anchor \in BottomAnchors => y = arg.H - arg.th - 16
                /\ arg.anchor \in CenterXAnchors => Abs(2 * x - (arg.W - arg.tw)) <= 2
                /\ arg.anchor \in CenterYAnchors => Abs(2 * y - (arg.H - arg.th)) <= 2

\* A centred layer wider than its canvas, with an odd negative difference.
AnchorCorrectnessWitness ==
    /\ pc = "ret" /\ fn = "anchor" /\ arg.anchor = "center"
    /\ arg.tw > arg.W /\ (arg.tw - arg.W) % 2 = 1
    /\ res.core[1] < 0 /\ res.preview[1] < 0

\* C13: for a name that is none of the nine anchors, the empty name among
\* them, both resolvers return the bottom-right position
\* (W - lw - 16, H - lh - 16).
UnknownAnchorFallback ==
    (pc = "ret" /\ fn = "anchor" /\ arg.anchor \notin AnchorNames) =>
        /\ res.core = <<arg.W - arg.tw - 16, arg.H - arg.th - 16>>
        /\ res.preview = <<arg.W - arg.tw - 16, arg.H - arg.th - 16>>

\* Both resolvers were given the empty name and moved the layer off the
\* top-left corner.
UnknownAnchorFallbackWitness ==
    /\ pc = "ret" /\ fn = "anchor" /\ arg.anchor = ""
    /\ res.core = res.preview
    /\ res.preview # <<16, 16>>

\* C3: the batch export of the core composes on the canvas the preview cap
\* min(900/w, 700/h, 1.0) gives, which is the canvas load_image produces, and
\* that canvas never exceeds 900 x 700.
ExportCanvasIsPreviewCanvas ==
    (pc = "ret" /\ fn = "scale") =>
        /\ res.core = res.preview
        /\ res.core[1] <= 900 /\ res.core[2] <= 700

\* C4: an integer offset turned into a ratio on a canvas dimension and back to
\* pixels on the same dimension is the original offset.
RatioRoundTrip ==
    (pc = "ret" /\ fn = "ratio") => res.same = arg.off

\* C5: on an export dimension other than the preview dimension the applied
\* offset int(ratio * exportDimension) differs from the exact product
\* offset * exportDimension / previewDimension by less than 1 px.
RatioScaling ==
    (pc = "ret" /\ fn = "ratio" /\ arg.W # arg.dim) =>
        Abs(res.other * arg.dim - arg.off * arg.W) < arg.dim

PhotoStem == <<"P", "h", "o", "t", "o">>

\* The extension the export format stands for.
FormatExt(fmt) ==
    IF fmt \in { <<"p", "n", "g">>, <<"P", "N", "G">> } THEN <<".", "p", "n", "g">>
    ELSE <<".", "j", "p", "g">>

\* The numbered candidates of the two resolvers.
UnderscoreName(i, ext) == PhotoStem \o <<"_">> \o Digits(i) \o ext
ParenName(i, ext) == PhotoStem \o <<"(">> \o Digits(i) \o <<")">> \o ext

\* `got` is the plain name when that is free, else the candidate of the
\* smallest index i >= 1 that does not exist; cand[i] is the i-th candidate.
SmallestFree(got, plain, cand, existing) ==
    /\ got \notin existing
    /\ plain \notin existing => got = plain
    /\ plain \in existing =>
          \E i \in 1..(MaxExisting + 1) :
              /\ got = cand[i]
              /\ \A j \in 1..(i - 1) : cand[j] \in existing

\* C8 (as amended): each resolver returns a path that does not exist, the
\* plain name when that is free and otherwise its candidate of the smallest
\* index i >= 1 that does not exist, numbered before the extension:
\* _safe_filename as name_i, _build_output_path as name(i).
CollisionResolution ==
    (pc = "ret" /\ fn = "resolve") =>
        LET ext   == FormatExt(arg.settings.fmt)
            plain == PhotoStem \o ext
        IN  /\ SmallestFree(res.core, plain,
                            [i \in 1..(MaxExisting + 1) |-> UnderscoreName(i, ext)],
                            arg.existing)
            /\ SmallestFree(res.ui, plain,
                            [i \in 1..(MaxExisting + 1) |-> ParenName(i, ext)],
                            arg.existing)

\* The plain name and the first candidate of either form exist already.
CollisionResolutionWitness ==
    /\ pc = "ret" /\ fn = "resolve"
    /\ res.core = UnderscoreName(2, <<".", "p", "n", "g">>)
    /\ res.ui = ParenName(2, <<".", "p", "n", "g">>)
    /\ UnderscoreName(1, <<".", "p", "n", "g">>) \in arg.existing
    /\ ParenName(1, <<".", "p", "n", "g">>) \in arg.existing

\* C8 as stated: as above, with one numbering form used by all exports.
CollisionResolutionOneForm ==
    (pc = "ret" /\ fn = "resolve") =>
        LET ext   == FormatExt(arg.settings.fmt)
            plain == PhotoStem \o ext
        IN  \E cand \in { [i \in 1..(MaxExisting + 1) |-> UnderscoreName(i, ext)],
                          [i \in 1..(MaxExisting + 1) |-> ParenName(i, ext)] } :
                /\ SmallestFree(res.core, plain, cand, arg.existing)
                /\ SmallestFree(res.ui, plain, cand, arg.existing)

\* The base name of each source path without its extension.
SourceStem ==
    [p \in SrcPaths |->
        CASE p = <<"d", "/", "P", "h", "o", "t", "o", ".", "J", "P", "G">> -> PhotoStem
          [] p = <<"d", ".", "x", "/", "I", "m", "g">> -> <<"I", "m", "g">>
          [] p = <<"a", ".", "t", "a", "r", ".", "g", "z">> -> <<"a", ".", "t", "a", "r">>
          [] p = <<".", "e", "n", "v">> -> <<".", "e", "n", "v">>
          [] p = <<"P", "h", "o", "t", "o", ".", "p", "n", "g">> -> PhotoStem]

\* C9: the output name is stem + ext under keep, prefix + stem + ext under
\* prefix and stem + suffix + ext under suffix, the stem being the source base
\* name without its extension in its own letter case and ext following from the
\* export format alone; _apply_naming and _build_output_path give the same name.
NamingRule ==
    (pc = "ret" /\ fn = "name") =>
        LET stem == SourceStem[arg.path]
            ext  == FormatExt(arg.settings.fmt)
            want == CASE arg.settings.name_rule = "keep"   -> stem \o ext
                      [] arg.settings.name_rule = "prefix" -> arg.settings.prefix \o stem \o ext
                      [] arg.settings.name_rule = "suffix" -> stem \o arg.settings.suffix \o ext
        IN  res.core = want /\ res.ui = want

\* A prefixed upper-case source exported as JPEG.
NamingRuleWitness ==
    /\ pc = "ret" /\ fn = "name"
    /\ arg.path = <<"d", "/", "P", "h", "o", "t", "o", ".", "J", "P", "G">>
    /\ arg.settings.name_rule = "prefix" /\ arg.settings.prefix = <<"w", "_">>
    /\ arg.settings.fmt = <<"j", "p", "e", "g">>
    /\ res.core = <<"w", "_", "P", "h", "o", "t", "o", ".", "j", "p", "g">>
    /\ res.ui = res.core

(***************************************************************************)
(* Properties of the batch export.                                         *)
(***************************************************************************)
\* Image i of the batch cannot be exported: its source is unreadable, its
\* write fails, or nothing can be written into the output directory.
Failing(i) == outcomes[i] # "good" \/ out_dir \in {"unwritable", "uncreatable"}

\* What the export has returned: every path was processed, the counters are
\* those of the good and the failing images, and each good image has its output.
BatchCounts ==
    bpc = "done" =>
        LET N == Len(image_paths)
            k == Cardinality({i \in 1..N : Failing(i)})
        IN  /\ n = N /\ Len(saved) = N
            /\ ok = N - k /\ fail = k /\ ok + fail = N
            /\ \A i \in 1..N :
                  ~Failing(i) => /\ saved[i] \in DOMAIN files
                                 /\ files[saved[i]] = [by |-> i, whole |-> TRUE]

\* What is left to do: the paths not yet processed, and the return.
Remaining == (Len(image_paths) - n) + (IF bpc = "loop" THEN 1 ELSE 0)

\* C6: a batch of N paths of which k fail individually is processed to its
\* end, an output is written for each of the N - k good images and the export
\* returns (N - k, k); the loop terminates: it never runs past the last path
\* and every step brings it nearer to its return.
BatchResilience ==
    /\ []BatchCounts
    /\ [](bpc = "loop" => (n <= Len(image_paths) /\ Len(saved) = n /\ ok + fail = n))
    /\ [][bpc = "loop" => Remaining' < Remaining]_vars

\* A good image, an unreadable one, and a good one after it.
BatchResilienceWitness ==
    /\ bpc = "done" /\ outcomes = <<"good", "unreadable", "good">>
    /\ out_dir = "ok" /\ ok = 2 /\ fail = 1
    /\ saved[1] \in DOMAIN files /\ saved[3] \in DOMAIN files

\* Two sources exported by the same batch are written to two paths.
DistinctTargets ==
    \A i, j \in 1..Len(saved) :
        (i # j /\ saved[i] # << >> /\ saved[j] # << >>) => saved[i] # saved[j]

\* C7: any two successfully exported sources of a batch are written to two
\* distinct paths, and no file that exists in the output directory, from before
\* the batch or written by it, is ever written again.
CollisionAvoidance ==
    /\ []DistinctTargets
    /\ [][\A nm \in DOMAIN files : nm \in DOMAIN files' /\ files'[nm] = files[nm]]_vars

\* Two sources with the same stem exported beside an older file of that name.
CollisionAvoidanceWitness ==
    /\ bpc = "done" /\ Len(saved) >= 2
    /\ image_paths[1] = <<"d", "/", "P", "h", "o", "t", "o", ".", "J", "P", "G">>
    /\ image_paths[2] = <<"e", "/", "P", "h", "o", "t", "o", ".", "p", "n", "g">>
    /\ saved[1] # << >> /\ saved[2] # << >> /\ saved[1] # saved[2]
    /\ <<"P", "h", "o", "t", "o", ".", "p", "n", "g">> \in DOMAIN files
    /\ files[<<"P", "h", "o", "t", "o", ".", "p", "n", "g">>] = OldFile

\* C10: with an output directory that cannot be created or written the export
\* raises nothing to its caller and returns (0, N).
WriteFailuresCounted ==
    /\ bpc # "raised"
    /\ (bpc = "done" /\ out_dir \in {"unwritable", "uncreatable"}) =>
           (ok = 0 /\ fail = Len(image_paths))

(***************************************************************************)
(* Sizes: the scaled watermark image, the export resize, the preview cap.  *)
(***************************************************************************)
\* C21: for every base width W >= 1, scale percent in 1..400 and watermark
\* size (w, h), the scaled watermark is max(1, int(W * scale / 100)) wide and
\* max(1, int(h * width / w)) high, both axes at least 1, and the preview and
\* the export compute the same size.
WatermarkScaling ==
    (pc = "ret" /\ fn = "wmscale") =>
        LET width == Max2(1, (arg.W * arg.scale) \div 100)
        IN  /\ res.preview = <<width, Max2(1, (arg.h * width) \div arg.w)>>
            /\ res.preview[1] >= 1 /\ res.preview[2] >= 1
            /\ res.like = res.preview

\* C22: with no resize mode the size is unchanged; with a value v >= 1 the
\* modes width, height and percent give (v, max(1, int(H*v/W))),
\* (max(1, int(W*v/H)), v) and (max(1, int(W*v/100)), max(1, int(H*v/100)));
\* both axes are at least 1 and both implementations give the same size.
ExportResize ==
    (pc = "ret" /\ fn = "resize" /\ arg.v >= 1) =>
        /\ res.core = res.ui
        /\ res.core[1] >= 1 /\ res.core[2] >= 1
        /\ res.core =
             CASE arg.mode = "none"    -> <<arg.W, arg.H>>
               [] arg.mode = "width"   -> <<arg.v, Max2(1, (arg.H * arg.v) \div arg.W)>>
               [] arg.mode = "height"  -> <<Max2(1, (arg.W * arg.v) \div arg.H), arg.v>>
               [] arg.mode = "percent" -> <<Max2(1, (arg.W * arg.v) \div 100),
                                            Max2(1, (arg.H * arg.v) \div 100)>>

\* C30: for every source size (w, h) with w >= 1 and h >= 1 the canvas of
\* the preview cap is at least 1 pixel wide and 1 pixel high, in load_image
\* and in _compose_preview_like.
PreviewCanvasNotDegenerate ==
    (pc = "ret" /\ fn = "scale") =>
        /\ Len(res.preview) = 2 /\ res.preview[1] >= 1 /\ res.preview[2] >= 1
        /\ Len(res.like) = 2 /\ res.like[1] >= 1 /\ res.like[2] >= 1

(***************************************************************************)
(* The image list, the preview load and the export preconditions.          *)
(***************************************************************************)
\* C23: every failed attempt to load the selected image into the preview
\* (path missing, not a file, or undecodable) is shown to the user as a
\* warning at once and leaves the preview's base image as it was.
LoadFailureSurfaced ==
    [][(last_op' = "select" /\ load_log'.outcome \in {"not a file", "undecodable"})
          => (load_log'.warned /\ base_path' = base_path)]_vars

\* C24: on_export writes no file unless the image list is non-empty, an
\* output directory is given, the text is non-empty in text mode or a
\* watermark image is loaded in image mode, and a list item is selected; when
\* it proceeds the paths exported are exactly the selected items, and the
\* successes and failures add up to the number of selected items.
ExportPreconditions ==
    (last_op = "on_export") =>
        LET allowed == /\ images # << >>
                       /\ Strip(out_dir_edit) # << >>
                       /\ IF watermark.mode = "text" THEN Strip(watermark.text) # << >>
                          ELSE watermark.image
                       /\ list_sel # {}
        IN  /\ ~allowed => (export_log.result # "exported" /\ export_log.written = << >>)
            /\ export_log.result = "exported" =>
                  /\ Range(export_log.targets) = { list_widget[r] : r \in list_sel }
                  /\ Len(export_log.targets) = Cardinality(list_sel)
                  /\ export_log.ok + export_log.fail = Cardinality(list_sel)
                  /\ Len(export_log.written) = export_log.ok

\* C24 happens: two of three listed images are selected and exported, one of
\* them failing.
ExportPreconditionsWitness ==
    /\ last_op = "on_export" /\ export_log.result = "exported"
    /\ Len(list_widget) = 3 /\ Cardinality(list_sel) = 2
    /\ export_log.ok = 1 /\ export_log.fail = 1

\* C29: after any sequence of add_images, remove_selected_images and
\* clear_all_images the image list holds no path twice, the list widget holds
\* one item per listed path in the same order, the export button is enabled
\* exactly when the list is non-empty, and with an empty list the preview
\* holds no base image.
ImageListConsistent ==
    (last_op \in {"add_images", "remove_selected_images", "clear_all_images"}) =>
        /\ \A i, j \in 1..Len(images) : images[i] = images[j] => i = j
        /\ list_widget = images
        /\ btn_export <=> (images # << >>)
        /\ (images = << >>) => (base_path = << >>)

(***************************************************************************)
(* The scale control and the drag gesture.                                 *)
(***************************************************************************)
\* C28: after any sequence of wheel events on the preview, edits of the
\* scale spin box, mode switches and template applications, the scale spin
\* box shows the image watermark scale the preview and the export use.
ScaleControlInSync ==
    (upc = "panel") => (wm_scale_spin = preview.wm_scale)

\* C25 as stated: the offset changes only through move events between a
\* left press made on a loaded image and the next left release; after each
\* such move the offset has changed, since the press, by exactly the pointer
\* position minus the press position, however many moves there were; other
\* moves, presses and releases leave the offset unchanged.
DragAccumulationMouseOnly ==
    [][(upc = "drag") =>
          /\ (preview'.offset # preview.offset)
                => (gesture'.event = "move" /\ gesture.open)
          /\ (gesture'.event = "move" /\ gesture.open)
                => preview'.offset =
                      <<gesture.press_offset[1] + gesture'.pos[1] - gesture.press_pos[1],
                        gesture.press_offset[2] + gesture'.pos[2] - gesture.press_pos[2]>>]_vars

\* C25 amended: the offset changes only through move events between a left
\* press made on a loaded image and the next left release, through an anchor
\* change, which sets it to (-16, -16), and through the application of a
\* template, which sets it to the template's offset; each such move adds the
\* pointer position minus the pointer position of the event before it in the
\* drag, so that in a drag without an anchor change and without a template
\* the offset has changed, since the press, by exactly the pointer position
\* minus the press position, however many moves there were; other moves,
\* presses and releases leave the offset unchanged.
DragAccumulation ==
    [][(upc = "drag") =>
          /\ (preview'.offset # preview.offset)
                => \/ gesture'.event = "move" /\ gesture.open
                   \/ gesture'.event = "anchor" /\ preview'.offset = <<-16, -16>>
                   \/ /\ gesture'.event = "template"
                      /\ \E s \in DragTemplates : ~s.broken /\ preview'.offset = s.offset
          /\ (gesture'.event \in {"press", "release"})
                => preview'.offset = preview.offset
          /\ (gesture'.event = "move" /\ gesture.open)
                => /\ preview'.offset =
                         <<preview.offset[1] + gesture'.pos[1] - drag_start[1],
                           preview.offset[2] + gesture'.pos[2] - drag_start[2]>>
                   /\ ~gesture.reset =>
                         preview'.offset =
                            <<gesture.press_offset[1] + gesture'.pos[1] - gesture.press_pos[1],
                              gesture.press_offset[2] + gesture'.pos[2] - gesture.press_pos[2]>>]_vars

\* C25 happens: a drag had three moves and has moved the offset, and no
\* anchor change or template came in between.
DragAccumulationWitness ==
    /\ upc = "drag" /\ gesture.event = "move" /\ gesture.open /\ gesture.moves = 3
    /\ ~gesture.reset
    /\ gesture.pos # gesture.press_pos
    /\ preview.offset # gesture.press_offset

(***************************************************************************)
(* The anchor: the size it is resolved with, and its change.               *)
(***************************************************************************)
\* C26: in both watermark modes and for every rotation the layer size given
\* to the anchor resolver is the size of the bitmap pasted, so that with the
\* bottom-right anchor the pasted layer keeps the 16 pixel margin from the
\* right and bottom edges, the offset apart.
AnchorUsesPastedSize ==
    (upc = "ready" /\ preview.composed.payload # "none") =>
        LET c == preview.composed
        IN  /\ c.layer = c.pasted
            /\ (preview.anchor = "bottom-right") =>
                  /\ c.pos[1] - preview.offset[1] + c.pasted[1] = c.canvas[1] - Margin
                  /\ c.pos[2] - preview.offset[2] + c.pasted[2] = c.canvas[2] - Margin

\* C27: an anchor change is atomic for the other handlers: whenever an export
\* runs, the anchor it uses (the preview's) is the anchor selected in the
\* anchor control, and no callback of an anchor change is still pending.
AnchorChangeAtomic ==
    (upc = "ready" /\ "export" \in DOMAIN exported) =>
        (preview.anchor = anchor_combo /\ timers = << >>)

====
